---- MODULE Spec2Model ----
(***************************************************************************)
(* Model of the Mode S frame decoder of plane-watch/pw-pipeline            *)
(* (lib/tracker/mode_s/decode.go): the AVR text parser, the downlink       *)
(* format dispatch, and Frame.Decode() with its per-frame decode lock.     *)
(*                                                                         *)
(* Text is a sequence of one-character strings, a payload a sequence of    *)
(* bytes (0..255).  A 64-bit unsigned value is four 16-bit limbs, least    *)
(* significant first, so that no value leaves the range of the checker's   *)
(* integers.                                                               *)
(***************************************************************************)
EXTENDS Integers, Sequences, FiniteSets, TLC

\* ------------------------------------------------------------------ bounds
\* number of goroutines that call Decode() on the frame
NumCallers == 2
\* total number of Decode() calls started in one behaviour
MaxCalls == 2
\* number of goroutines of the bot that run location calls
NumGoroutines == 2
\* total number of location calls started in one behaviour
MaxLocCalls == 2
\* largest number of locations in the list the bot loads at its start
MaxLoaded == 3

\* options handed to one NewFilter call
MaxOptions == 2

\* --------------------------------------------------------------- constants
modesLongMsgBytes == 14
modesShortMsgBytes == 7
modesLongMsgBits == modesLongMsgBytes * 8
modesShortMsgBits == modesShortMsgBytes * 8

\* minimum length of a trimmed text frame (len(encodedFrame) < 14)
minFrameChars == 14
\* end of the slice encodedFrame[1:12] that holds the timestamp
mlatTimeStampEnd == 12

\* variant: the payload taken from where the timestamp slice ends
mlatFrameStartAtSliceEnd == mlatTimeStampEnd

\* offset of the payload in an '@' record (frameStart = 13)
mlatFrameStart == 13

\* ---------------------------------------------------------- bit arithmetic
RECURSIVE BitAnd(_, _)
BitAnd(a, b) ==
    IF a = 0 \/ b = 0 THEN 0
    ELSE (a % 2) * (b % 2) + 2 * BitAnd(a \div 2, b \div 2)

RECURSIVE BitOr(_, _)
BitOr(a, b) ==
    IF a = 0 THEN b
    ELSE IF b = 0 THEN a
    ELSE (IF a % 2 = 1 \/ b % 2 = 1 THEN 1 ELSE 0) + 2 * BitOr(a \div 2, b \div 2)

RECURSIVE BitXor(_, _)
BitXor(a, b) ==
    IF a = 0 THEN b
    ELSE IF b = 0 THEN a
    ELSE ((a + b) % 2) + 2 * BitXor(a \div 2, b \div 2)

Shr(a, n) == a \div (2 ^ n)

\* a << n, n > 0, on an unsigned value of the given width: the n high bits
\* are lost
Shl(a, n, width) ==
    LET keep == width - n
    IN  (IF keep >= 31 THEN a ELSE a % (2 ^ keep)) * (2 ^ n)

\* ----------------------------------------------------------------- strings
UpperHex ==
    <<"0", "1", "2", "3", "4", "5", "6", "7", "8", "9", "A", "B", "C", "D", "E", "F">>

LowerHex ==
    <<"0", "1", "2", "3", "4", "5", "6", "7", "8", "9", "a", "b", "c", "d", "e", "f">>

IsHexChar(c) == \E i \in 1..16 : UpperHex[i] = c \/ LowerHex[i] = c

HexVal(c) == (CHOOSE i \in 1..16 : UpperHex[i] = c \/ LowerHex[i] = c) - 1

\* unicode.IsSpace on the ASCII range
IsSpace(c) == c \in {" ", "\t", "\n", "\r", "\f"}

\* the cut set of the strings.TrimFunc call in parseIntoRaw
IsTrimmed(c) == IsSpace(c) \/ c = ";"

\* s[from:to] of Go on a sequence (0-based, to exclusive)
Slice(s, from, to) == SubSeq(s, from + 1, to)

RECURSIVE TrimLeft(_)
TrimLeft(s) ==
    IF s # <<>> /\ IsTrimmed(Head(s)) THEN TrimLeft(Tail(s)) ELSE s

RECURSIVE TrimRight(_)
TrimRight(s) ==
    IF s # <<>> /\ IsTrimmed(s[Len(s)]) THEN TrimRight(SubSeq(s, 1, Len(s) - 1)) ELSE s

\* strings.TrimFunc(s, IsSpace or ';')
TrimFunc(s) == TrimRight(TrimLeft(s))

\* ------------------------------------------------------ 64-bit unsigned values
U64Zero == <<0, 0, 0, 0>>

\* value of up to four hex digits
RECURSIVE HexGroupVal(_)
HexGroupVal(s) ==
    IF s = <<>> THEN 0 ELSE 16 * HexGroupVal(SubSeq(s, 1, Len(s) - 1)) + HexVal(s[Len(s)])

\* the limb of weight 65536^k of the hex numeral s
HexLimb(s, k) ==
    LET hi == Len(s) - 4 * k
        lo == hi - 3
    IN  IF hi < 1 THEN 0 ELSE HexGroupVal(SubSeq(s, IF lo < 1 THEN 1 ELSE lo, hi))

\* strconv.ParseUint(s, 16, 64) on a numeral of at most 16 digits: ok is
\* FALSE on an empty numeral and on a non-hex character
ParseUint64(s) ==
    IF s = <<>> \/ (\E i \in 1..Len(s) : ~IsHexChar(s[i]))
    THEN [ok |-> FALSE, val |-> U64Zero]
    ELSE [ok |-> TRUE, val |-> <<HexLimb(s, 0), HexLimb(s, 1), HexLimb(s, 2), HexLimb(s, 3)>>]

\* strconv.ParseUint(pair, 16, 8) on a two-character pair
ParseUint8(pair) ==
    IF \E i \in 1..Len(pair) : ~IsHexChar(pair[i])
    THEN [ok |-> FALSE, val |-> 0]
    ELSE [ok |-> TRUE, val |-> HexGroupVal(pair)]

\* v * k on uint64 (wraps modulo 2^64), for k < 2^15
U64Mul(v, k) ==
    LET p0 == v[1] * k
        p1 == v[2] * k + (p0 \div 65536)
        p2 == v[3] * k + (p1 \div 65536)
        p3 == v[4] * k + (p2 \div 65536)
    IN  <<p0 % 65536, p1 % 65536, p2 % 65536, p3 % 65536>>

\* ------------------------------------------------------------- CRC engine
\* generator polynomial of the Mode S 24-bit CRC
modesCrcPoly == 16774153

\* the CRC register is held as the set of its one bits (bit 0 the least
\* significant), so that XOR is the symmetric difference
BitsOf(x) == {k \in 0..23 : (x \div (2 ^ k)) % 2 = 1}

RECURSIVE FromBits(_, _)
FromBits(s, k) ==
    IF k > 23 THEN 0 ELSE (IF k \in s THEN 2 ^ k ELSE 0) + FromBits(s, k + 1)

SymDiff(s, t) == (s \ t) \cup (t \ s)

\* one shift of the 24-bit CRC register
crcShift(c) ==
    LET shifted == {k + 1 : k \in c \ {23}}
    IN  IF 23 \in c THEN SymDiff(shifted, BitsOf(modesCrcPoly)) ELSE shifted

\* entry of the 256-entry table, keyed by the top byte of the register
crcTable(top) ==
    crcShift(crcShift(crcShift(crcShift(
    crcShift(crcShift(crcShift(crcShift({k + 16 : k \in top}))))))))

\* feed one byte: the register moves up by eight bits and the table entry
\* of (top byte XOR b) is folded in
crcByte(c, b) ==
    LET top == {k - 16 : k \in {j \in c : j >= 16}}
        low == {k + 8 : k \in {j \in c : j < 16}}
    IN  SymDiff(low, crcTable(SymDiff(top, BitsOf(b))))

\* syndrome of the data bytes msg[1..n], fed most significant byte first
RECURSIVE crcData(_, _)
crcData(msg, n) ==
    IF n = 0 THEN {} ELSE crcByte(crcData(msg, n - 1), msg[n])

\* the trailing 24 bits of the message, big-endian
trailing24(msg) ==
    LET n == Len(msg)
    IN  msg[n - 2] * 65536 + msg[n - 1] * 256 + msg[n]

\* checksum_addr: data syndrome XOR trailing 24 bits
modesChecksumAddr(msg) ==
    FromBits(SymDiff(crcData(msg, Len(msg) - 3), BitsOf(trailing24(msg))), 0)

\* ------------------------------------------------------------------ Frame
\* error values returned by Decode(); "nil" is success, "Panic" a run-time
\* panic that unwinds through the deferred Unlock
Errors ==
    {"Empty", "ShortFrame", "BadTimestamp", "RawEmpty", "OddLength", "BadLength",
     "BadHex", "MessageEmpty", "NoOp", "LengthMismatch", "BadCRC", "Panic"}

modesUnitFeet == 0
modesUnitMetres == 1

\* the zero value of Frame
ZeroFrame ==
    [full |-> <<>>, raw |-> <<>>, message |-> <<>>, messageNil |-> TRUE,
     mode |-> "", beastTimeStamp |-> <<>>, beastTicks |-> U64Zero,
     beastTicksNs |-> U64Zero, fromBytes |-> FALSE, hasDecoded |-> FALSE,
     downLinkFormat |-> 0, icao |-> 0, ca |-> 0, cc |-> 0, fs |-> 0, vs |-> 0,
     ri |-> 0, sl |-> 0, dr |-> 0, um |-> 0, identity |-> 0,
     ac |-> 0, acM |-> FALSE, acQ |-> FALSE, altitude |-> 0,
     validAltitude |-> FALSE, unit |-> modesUnitFeet,
     onGround |-> FALSE, validVerticalStatus |-> FALSE, alert |-> FALSE,
     messageType |-> 0, flight |-> <<>>, commB |-> <<>>]

NewFrame(rawFrame) == [ZeroFrame EXCEPT !.full = rawFrame]

NewFrameFromBytes(beastTicks, message) ==
    [ZeroFrame EXCEPT !.mode = "MLAT", !.beastTicks = beastTicks,
                      !.message = message, !.messageNil = FALSE,
                      !.fromBytes = TRUE]

\* ------------------------------------------------------- AVR text parser
parseBeastTimeStamp(f) ==
    IF f.beastTimeStamp = <<>> \/ f.beastTimeStamp = [i \in 1..11 |-> "0"]
    THEN [err |-> "nil", f |-> f]
    ELSE LET t == ParseUint64(f.beastTimeStamp)
         IN  IF ~t.ok
             THEN [err |-> "BadTimestamp", f |-> [f EXCEPT !.beastTicks = t.val]]
             ELSE [err |-> "nil",
                   f |-> [f EXCEPT !.beastTicks = t.val,
                                   !.beastTicksNs = U64Mul(t.val, 500)]]

\* number of leading pairs of raw that strconv.ParseUint accepts
RECURSIVE goodPairs(_)
goodPairs(raw) ==
    IF Len(raw) < 2 \/ ~ParseUint8(SubSeq(raw, 1, 2)).ok THEN 0
    ELSE 1 + goodPairs(SubSeq(raw, 3, Len(raw)))

\* variant: the pairs read with a stride of one character
parseRawToMessageStride1(f) ==
    IF ~f.messageNil THEN [err |-> "nil", f |-> f]
    ELSE
    LET frameLen == Len(f.raw)
        messageLen == frameLen \div 2
        good == goodPairs(f.raw)
        \* make([]byte, messageLen), then the pairs decoded before the loop
        \* returns or ends
        filled == [index \in 1..messageLen |->
                      IF index <= good
                      THEN ParseUint8(Slice(f.raw, index - 1, index + 1)).val
                      ELSE 0]
        g == [f EXCEPT !.message = filled, !.messageNil = FALSE]
    IN  IF BitAnd(frameLen, 1) # 0 THEN [err |-> "OddLength", f |-> f]
        ELSE IF ~(messageLen = modesShortMsgBytes \/ messageLen = modesLongMsgBytes)
        THEN [err |-> "BadLength", f |-> f]
        ELSE IF good < messageLen THEN [err |-> "BadHex", f |-> g]
        ELSE IF Len(g.message) = 0 THEN [err |-> "MessageEmpty", f |-> g]
        ELSE [err |-> "nil", f |-> g]

\* variant: no check that the digit count is even
parseRawToMessageNoOddCheck(f) ==
    IF ~f.messageNil THEN [err |-> "nil", f |-> f]
    ELSE
    LET frameLen == Len(f.raw)
        messageLen == frameLen \div 2
        good == goodPairs(f.raw)
        \* make([]byte, messageLen), then the pairs decoded before the loop
        \* returns or ends
        filled == [index \in 1..messageLen |->
                      IF index <= good
                      THEN ParseUint8(Slice(f.raw, 2 * (index - 1), 2 * index)).val
                      ELSE 0]
        g == [f EXCEPT !.message = filled, !.messageNil = FALSE]
    IN  IF ~(messageLen = modesShortMsgBytes \/ messageLen = modesLongMsgBytes)
        THEN [err |-> "BadLength", f |-> f]
        ELSE IF good < messageLen THEN [err |-> "BadHex", f |-> g]
        ELSE IF Len(g.message) = 0 THEN [err |-> "MessageEmpty", f |-> g]
        ELSE [err |-> "nil", f |-> g]

parseRawToMessage(f) ==
    IF ~f.messageNil THEN [err |-> "nil", f |-> f]
    ELSE
    LET frameLen == Len(f.raw)
        messageLen == frameLen \div 2
        good == goodPairs(f.raw)
        \* make([]byte, messageLen), then the pairs decoded before the loop
        \* returns or ends
        filled == [index \in 1..messageLen |->
                      IF index <= good
                      THEN ParseUint8(Slice(f.raw, 2 * (index - 1), 2 * index)).val
                      ELSE 0]
        g == [f EXCEPT !.message = filled, !.messageNil = FALSE]
    IN  IF BitAnd(frameLen, 1) # 0 THEN [err |-> "OddLength", f |-> f]
        ELSE IF ~(messageLen = modesShortMsgBytes \/ messageLen = modesLongMsgBytes)
        THEN [err |-> "BadLength", f |-> f]
        ELSE IF good < messageLen THEN [err |-> "BadHex", f |-> g]
        ELSE IF Len(g.message) = 0 THEN [err |-> "MessageEmpty", f |-> g]
        ELSE [err |-> "nil", f |-> g]

parseIntoRaw(f) ==
    IF Len(f.raw) > 0 THEN [err |-> "nil", f |-> f]
    ELSE
    LET encodedFrame == TrimFunc(f.full)
    IN  IF encodedFrame = <<>> THEN [err |-> "Empty", f |-> f]
        ELSE IF Len(encodedFrame) < minFrameChars THEN [err |-> "ShortFrame", f |-> f]
        ELSE
        LET mode == IF encodedFrame[1] = "@" THEN "MLAT" ELSE "NORMAL"
            f1 == [f EXCEPT !.mode = mode]
        IN  IF mode = "MLAT"
            THEN LET f2 == [f1 EXCEPT !.beastTimeStamp =
                                          Slice(encodedFrame, 1, mlatTimeStampEnd)]
                     ts == parseBeastTimeStamp(f2)
                     f3 == [ts.f EXCEPT !.raw =
                                Slice(encodedFrame, mlatFrameStart, Len(encodedFrame))]
                 IN  IF ts.err # "nil" THEN ts
                     ELSE IF Len(f3.raw) = 0 THEN [err |-> "RawEmpty", f |-> f3]
                     ELSE parseRawToMessage(f3)
            ELSE LET frameStart == IF encodedFrame[1] = "*" THEN 1 ELSE 0
                     f3 == [f1 EXCEPT !.raw =
                                Slice(encodedFrame, frameStart, Len(encodedFrame))]
                 IN  IF Len(f3.raw) = 0 THEN [err |-> "RawEmpty", f |-> f3]
                     ELSE parseRawToMessage(f3)

\* --------------------------------------------------------- field decoders
\* f.message[k] of Go (0-based)
Byte(f, k) == f.message[k + 1]

Bit(x, k) == (x \div (2 ^ k)) % 2

\* variant: DF24 recognised from the top bit alone
decodeDownLinkFormatTopBit(f) ==
    IF BitAnd(Byte(f, 0), 128) = 128
    THEN [f EXCEPT !.downLinkFormat = 24]
    ELSE [f EXCEPT !.downLinkFormat = Shr(Byte(f, 0), 3)]

decodeDownLinkFormat(f) ==
    IF BitAnd(Byte(f, 0), 192) = 192
    THEN [f EXCEPT !.downLinkFormat = 24]
    ELSE [f EXCEPT !.downLinkFormat = Shr(Byte(f, 0), 3)]

\* variant: the long formats told by bit 3 of the downlink format
getMessageLengthBytesBit3(f) ==
    IF BitAnd(f.downLinkFormat, 8) # 0 THEN modesLongMsgBytes ELSE modesShortMsgBytes

getMessageLengthBytes(f) ==
    IF BitAnd(f.downLinkFormat, 16) # 0 THEN modesLongMsgBytes ELSE modesShortMsgBytes

getMessageLengthBits(f) ==
    IF BitAnd(f.downLinkFormat, 16) # 0
    THEN IF Len(f.message) = 14 THEN modesShortMsgBits ELSE modesLongMsgBits
    ELSE modesShortMsgBits

\* the "NoOp" short frame of the text path: an all-zero 7-byte payload
isNoOp(f) ==
    /\ Len(f.message) = modesShortMsgBytes
    /\ \A i \in 1..Len(f.message) : f.message[i] = 0

\* zero-syndrome CRC check, fatal for the parity-only formats DF11/17/18
checkCrc(f) ==
    IF f.downLinkFormat \in {11, 17, 18} /\ modesChecksumAddr(f.message) # 0
    THEN "BadCRC"
    ELSE "nil"

decodeModeSChecksumAddr(f) == modesChecksumAddr(f.message)

decodeCapability(f) ==
    LET ca == BitAnd(Byte(f, 0), 7)
    IN  IF ca = 4
        THEN [f EXCEPT !.ca = ca, !.validVerticalStatus = TRUE, !.onGround = TRUE]
        ELSE IF ca = 5
        THEN [f EXCEPT !.ca = ca, !.validVerticalStatus = TRUE, !.onGround = FALSE]
        ELSE [f EXCEPT !.ca = ca]

decodeCrossLinkCapability(f) ==
    [f EXCEPT !.cc = Shr(BitAnd(Byte(f, 0), 2), 1)]

decodeFlightStatus(f) ==
    LET fs == BitAnd(Byte(f, 0), 7)
        f1 == [f EXCEPT !.fs = fs]
        f2 == IF fs = 0 \/ fs = 2
              THEN [f1 EXCEPT !.validVerticalStatus = TRUE, !.onGround = FALSE]
              ELSE f1
        f3 == IF fs = 1 \/ fs = 3
              THEN [f2 EXCEPT !.validVerticalStatus = TRUE, !.onGround = TRUE]
              ELSE f2
        f4 == IF fs = 4 \/ fs = 5
              THEN [f3 EXCEPT !.validVerticalStatus = FALSE, !.onGround = FALSE]
              ELSE f3
    IN  IF fs = 2 \/ fs = 3 \/ fs = 4 THEN [f4 EXCEPT !.alert = TRUE] ELSE f4

decodeVerticalStatus(f) ==
    LET vs == Shr(BitAnd(Byte(f, 0), 4), 2)
    IN  [f EXCEPT !.vs = vs, !.onGround = (vs # 0), !.validVerticalStatus = TRUE]

decodeReplyInformation(f) ==
    [f EXCEPT !.ri = BitOr(Shl(BitAnd(Byte(f, 1), 7), 1, 8),
                           Shr(BitAnd(Byte(f, 2), 128), 7))]

decodeSensitivityLevel(f) ==
    [f EXCEPT !.sl = Shr(BitAnd(Byte(f, 1), 224), 5)]

decodeDownLinkRequest(f) ==
    [f EXCEPT !.dr = Shr(BitAnd(Byte(f, 1), 248), 3)]

decodeUtilityMessage(f) ==
    [f EXCEPT !.um = BitOr(Shl(BitAnd(Byte(f, 1), 7), 3, 8),
                           Shr(BitAnd(Byte(f, 2), 224), 5))]

decodeICAO(f) ==
    IF f.downLinkFormat \in {0, 4, 5, 16, 20, 21}
    THEN [f EXCEPT !.icao = decodeModeSChecksumAddr(f)]
    ELSE IF f.downLinkFormat \in {11, 17, 18}
    THEN [f EXCEPT !.icao = BitOr(BitOr(Shl(Byte(f, 1), 16, 32), Shl(Byte(f, 2), 8, 32)),
                                  Byte(f, 3))]
    ELSE IF f.downLinkFormat \in ({1, 2, 3, 6, 7, 8, 9, 10, 12, 13, 14, 15, 19} \cup (22..31))
    THEN [f EXCEPT !.icao = 0]
    ELSE f

\* variant: the A4 bit read from the ZERO position
decodeSquawkIdentityZeroBit(f, byte1, byte2) ==
    LET msg2 == Byte(f, byte1)
        msg3 == Byte(f, byte2)
        a == BitOr(BitOr(Shr(BitAnd(msg3, 64), 4), Shr(BitAnd(msg2, 2), 0)),
                   Shr(BitAnd(msg2, 8), 3))
        b == BitOr(BitOr(Shl(BitAnd(msg3, 2), 1, 32), Shr(BitAnd(msg3, 8), 2)),
                   Shr(BitAnd(msg3, 32), 5))
        c == BitOr(BitOr(Shl(BitAnd(msg2, 1), 2, 32), Shr(BitAnd(msg2, 4), 1)),
                   Shr(BitAnd(msg2, 16), 4))
        d == BitOr(BitOr(Shl(BitAnd(msg3, 1), 2, 32), Shr(BitAnd(msg3, 4), 1)),
                   Shr(BitAnd(msg3, 16), 4))
    IN  [f EXCEPT !.identity = a * 1000 + b * 100 + c * 10 + d]

decodeSquawkIdentity(f, byte1, byte2) ==
    LET msg2 == Byte(f, byte1)
        msg3 == Byte(f, byte2)
        a == BitOr(BitOr(Shr(BitAnd(msg3, 128), 5), Shr(BitAnd(msg2, 2), 0)),
                   Shr(BitAnd(msg2, 8), 3))
        b == BitOr(BitOr(Shl(BitAnd(msg3, 2), 1, 32), Shr(BitAnd(msg3, 8), 2)),
                   Shr(BitAnd(msg3, 32), 5))
        c == BitOr(BitOr(Shl(BitAnd(msg2, 1), 2, 32), Shr(BitAnd(msg2, 4), 1)),
                   Shr(BitAnd(msg2, 16), 4))
        d == BitOr(BitOr(Shl(BitAnd(msg3, 1), 2, 32), Shr(BitAnd(msg3, 4), 1)),
                   Shr(BitAnd(msg3, 16), 4))
    IN  [f EXCEPT !.identity = a * 1000 + b * 100 + c * 10 + d]

\* Gillham de-interleave of the 13-bit field into the Mode A layout
decodeID13Field(id13) ==
      Bit(id13, 12) * 16 + Bit(id13, 11) * 4096 + Bit(id13, 10) * 32
    + Bit(id13, 9) * 8192 + Bit(id13, 8) * 64 + Bit(id13, 7) * 16384
    + Bit(id13, 5) * 256 + Bit(id13, 4) * 1 + Bit(id13, 3) * 512
    + Bit(id13, 2) * 2 + Bit(id13, 1) * 1024 + Bit(id13, 0) * 4

\* Mode A to Mode C: Gray-coded 500 ft bands with 100 ft steps, in units of
\* 100 ft; -9999 for an illegal code
modeAToModeC(modeA) ==
    LET x(c, m, v) == IF BitAnd(modeA, m) # 0 THEN BitXor(c, v) ELSE c
        one0 == x(x(x(0, 16, 7), 32, 3), 64, 1)
        one1 == IF BitAnd(one0, 5) = 5 THEN BitXor(one0, 2) ELSE one0
        five == x(x(x(x(x(x(x(x(0, 2, 255), 4, 127), 4096, 63), 8192, 31),
                    16384, 15), 256, 7), 512, 3), 1024, 1)
        one2 == IF BitAnd(five, 1) # 0 THEN 6 - one1 ELSE one1
    IN  IF BitAnd(modeA, 34953) # 0 \/ BitAnd(modeA, 240) = 0 THEN -9999
        ELSE IF one1 > 5 THEN -9999
        ELSE five * 5 + one2 - 13

\* variant: the Q bit is kept in the 11-bit integer
decode13bitAltitudeCodeKeepQ(f) ==
    LET ac == BitOr(Shl(BitAnd(Byte(f, 2), 31), 8, 32), Byte(f, 3))
        acM == BitAnd(ac, 64) = 64
        acQ == BitAnd(ac, 16) = 16
        f1 == [f EXCEPT !.ac = ac, !.acM = acM, !.acQ = acQ]
        n == BitOr(BitOr(Shr(BitAnd(ac, 8064), 2), Shr(BitAnd(ac, 48), 1)),
                   BitAnd(ac, 15))
        modeC == modeAToModeC(decodeID13Field(ac))
        valid == modeC >= -12
    IN  IF ~acM /\ acQ
        THEN [f1 EXCEPT !.unit = modesUnitFeet, !.altitude = (n * 25) - 1000,
                        !.validAltitude = TRUE]
        ELSE IF ~acM /\ ~acQ
        THEN [f1 EXCEPT !.unit = modesUnitFeet,
                        !.altitude = (IF valid THEN modeC ELSE 0) * 100,
                        !.validAltitude = valid]
        ELSE [f1 EXCEPT !.unit = modesUnitMetres, !.validAltitude = FALSE]

\* variant: a rejected Gillham altitude is not reset to 0
decode13bitAltitudeCodeKeepRejected(f) ==
    LET ac == BitOr(Shl(BitAnd(Byte(f, 2), 31), 8, 32), Byte(f, 3))
        acM == BitAnd(ac, 64) = 64
        acQ == BitAnd(ac, 16) = 16
        f1 == [f EXCEPT !.ac = ac, !.acM = acM, !.acQ = acQ]
        n == BitOr(BitOr(Shr(BitAnd(ac, 8064), 2), Shr(BitAnd(ac, 32), 1)),
                   BitAnd(ac, 15))
        modeC == modeAToModeC(decodeID13Field(ac))
        valid == modeC >= -12
    IN  IF ~acM /\ acQ
        THEN [f1 EXCEPT !.unit = modesUnitFeet, !.altitude = (n * 25) - 1000,
                        !.validAltitude = TRUE]
        ELSE IF ~acM /\ ~acQ
        THEN [f1 EXCEPT !.unit = modesUnitFeet, !.altitude = modeC * 100,
                        !.validAltitude = valid]
        ELSE [f1 EXCEPT !.unit = modesUnitMetres, !.validAltitude = FALSE]

decode13bitAltitudeCode(f) ==
    LET ac == BitOr(Shl(BitAnd(Byte(f, 2), 31), 8, 32), Byte(f, 3))
        acM == BitAnd(ac, 64) = 64
        acQ == BitAnd(ac, 16) = 16
        f1 == [f EXCEPT !.ac = ac, !.acM = acM, !.acQ = acQ]
        n == BitOr(BitOr(Shr(BitAnd(ac, 8064), 2), Shr(BitAnd(ac, 32), 1)),
                   BitAnd(ac, 15))
        modeC == modeAToModeC(decodeID13Field(ac))
        valid == modeC >= -12
    IN  IF ~acM /\ acQ
        THEN [f1 EXCEPT !.unit = modesUnitFeet, !.altitude = (n * 25) - 1000,
                        !.validAltitude = TRUE]
        ELSE IF ~acM /\ ~acQ
        THEN [f1 EXCEPT !.unit = modesUnitFeet,
                        !.altitude = (IF valid THEN modeC ELSE 0) * 100,
                        !.validAltitude = valid]
        ELSE [f1 EXCEPT !.unit = modesUnitMetres, !.validAltitude = FALSE]

\* the 64-entry AIS-6 character set
aisCharset ==
    <<"@", "A", "B", "C", "D", "E", "F", "G", "H", "I", "J", "K", "L", "M", "N", "O",
      "P", "Q", "R", "S", "T", "U", "V", "W", "X", "Y", "Z", "[", "\\", "]", "^", "_",
      " ", "!", "\"", "#", "$", "%", "&", "'", "(", ")", "*", "+", ",", "-", ".", "/",
      "0", "1", "2", "3", "4", "5", "6", "7", "8", "9", ":", ";", "<", "=", ">", "?">>

\* variant: the third character takes its low bits from the wrong shift
decodeFlightNumberShift(b) ==
    LET callsign ==
          <<aisCharset[Shr(b[1], 2) + 1],
            aisCharset[BitOr(Shl(BitAnd(b[1], 3), 4, 8), Shr(b[2], 4)) + 1],
            aisCharset[BitOr(Shl(BitAnd(b[2], 15), 2, 8), Shr(b[3], 7)) + 1],
            aisCharset[BitAnd(b[3], 63) + 1],
            aisCharset[Shr(b[4], 2) + 1],
            aisCharset[BitOr(Shl(BitAnd(b[4], 3), 4, 8), Shr(b[5], 4)) + 1],
            aisCharset[BitOr(Shl(BitAnd(b[5], 15), 2, 8), Shr(b[6], 6)) + 1],
            aisCharset[BitAnd(b[6], 63) + 1]>>
    IN  IF callsign = [i \in 1..8 |-> "@"] THEN <<>> ELSE callsign

\* decodeFlightNumber(b) for a six-byte b
decodeFlightNumber(b) ==
    LET callsign ==
          <<aisCharset[Shr(b[1], 2) + 1],
            aisCharset[BitOr(Shl(BitAnd(b[1], 3), 4, 8), Shr(b[2], 4)) + 1],
            aisCharset[BitOr(Shl(BitAnd(b[2], 15), 2, 8), Shr(b[3], 6)) + 1],
            aisCharset[BitAnd(b[3], 63) + 1],
            aisCharset[Shr(b[4], 2) + 1],
            aisCharset[BitOr(Shl(BitAnd(b[4], 3), 4, 8), Shr(b[5], 4)) + 1],
            aisCharset[BitOr(Shl(BitAnd(b[5], 15), 2, 8), Shr(b[6], 6)) + 1],
            aisCharset[BitAnd(b[6], 63) + 1]>>
    IN  IF callsign = [i \in 1..8 |-> "@"] THEN <<>> ELSE callsign

\* ADS-B ME sub-decoder: the type code is message[4] >> 3; type codes 1..4
\* carry the callsign in message[5:11]
decodeAdsb(f) ==
    LET tc == Shr(Byte(f, 4), 3)
        f1 == [f EXCEPT !.messageType = tc]
    IN  IF tc \in 1..4
        THEN [f1 EXCEPT !.flight = decodeFlightNumber(Slice(f.message, 5, 11))]
        ELSE f1

\* Comm-B extractor: the 7-byte MB field of DF20/21
decodeCommB(f) == [err |-> "nil", f |-> [f EXCEPT !.commB = Slice(f.message, 4, 11)]]

\* --------------------------------------------------------- DF dispatcher
\* variant: DF18 decoded without looking at the control field
decodeDFAnyCF(f) ==
    CASE f.downLinkFormat = 0 ->
           [err |-> "nil",
            f |-> decode13bitAltitudeCode(decodeReplyInformation(decodeSensitivityLevel(
                  decodeCrossLinkCapability(decodeVerticalStatus(decodeICAO(f))))))]
      [] f.downLinkFormat = 4 ->
           [err |-> "nil",
            f |-> decode13bitAltitudeCode(decodeUtilityMessage(decodeDownLinkRequest(
                  decodeFlightStatus(decodeICAO(f)))))]
      [] f.downLinkFormat = 5 ->
           [err |-> "nil",
            f |-> decodeSquawkIdentity(decodeUtilityMessage(decodeDownLinkRequest(
                  decodeFlightStatus(decodeICAO(f)))), 2, 3)]
      [] f.downLinkFormat = 11 ->
           [err |-> "nil", f |-> decodeCapability(decodeICAO(f))]
      [] f.downLinkFormat = 16 ->
           [err |-> "nil",
            f |-> decodeSensitivityLevel(decodeReplyInformation(decode13bitAltitudeCode(
                  decodeVerticalStatus(decodeICAO(f)))))]
      [] f.downLinkFormat = 17 ->
           [err |-> "nil", f |-> decodeAdsb(decodeCapability(decodeICAO(f)))]
      [] f.downLinkFormat = 18 ->
           LET f1 == decodeCapability(f)
           IN  [err |-> "nil",
                f |-> decodeAdsb(decodeICAO(f1))]
      [] f.downLinkFormat = 20 ->
           decodeCommB(decode13bitAltitudeCode(decodeFlightStatus(decodeICAO(f))))
      [] f.downLinkFormat = 21 ->
           decodeCommB(decodeSquawkIdentity(decodeFlightStatus(decodeICAO(f)), 2, 3))
      [] OTHER -> [err |-> "nil", f |-> f]

\* variant: a format without a case is decoded like DF11
decodeDFDefaultIcao(f) ==
    CASE f.downLinkFormat = 0 ->
           [err |-> "nil",
            f |-> decode13bitAltitudeCode(decodeReplyInformation(decodeSensitivityLevel(
                  decodeCrossLinkCapability(decodeVerticalStatus(decodeICAO(f))))))]
      [] f.downLinkFormat = 4 ->
           [err |-> "nil",
            f |-> decode13bitAltitudeCode(decodeUtilityMessage(decodeDownLinkRequest(
                  decodeFlightStatus(decodeICAO(f)))))]
      [] f.downLinkFormat = 5 ->
           [err |-> "nil",
            f |-> decodeSquawkIdentity(decodeUtilityMessage(decodeDownLinkRequest(
                  decodeFlightStatus(decodeICAO(f)))), 2, 3)]
      [] f.downLinkFormat = 11 ->
           [err |-> "nil", f |-> decodeCapability(decodeICAO(f))]
      [] f.downLinkFormat = 16 ->
           [err |-> "nil",
            f |-> decodeSensitivityLevel(decodeReplyInformation(decode13bitAltitudeCode(
                  decodeVerticalStatus(decodeICAO(f)))))]
      [] f.downLinkFormat = 17 ->
           [err |-> "nil", f |-> decodeAdsb(decodeCapability(decodeICAO(f)))]
      [] f.downLinkFormat = 18 ->
           LET f1 == decodeCapability(f)
           IN  [err |-> "nil",
                f |-> IF f1.ca = 0 THEN decodeAdsb(decodeICAO(f1)) ELSE f1]
      [] f.downLinkFormat = 20 ->
           decodeCommB(decode13bitAltitudeCode(decodeFlightStatus(decodeICAO(f))))
      [] f.downLinkFormat = 21 ->
           decodeCommB(decodeSquawkIdentity(decodeFlightStatus(decodeICAO(f)), 2, 3))
      [] OTHER -> [err |-> "nil", f |-> decodeCapability(decodeICAO(f))]

\* the switch of parse() on the downlink format
decodeDF(f) ==
    CASE f.downLinkFormat = 0 ->
           [err |-> "nil",
            f |-> decode13bitAltitudeCode(decodeReplyInformation(decodeSensitivityLevel(
                  decodeCrossLinkCapability(decodeVerticalStatus(decodeICAO(f))))))]
      [] f.downLinkFormat = 4 ->
           [err |-> "nil",
            f |-> decode13bitAltitudeCode(decodeUtilityMessage(decodeDownLinkRequest(
                  decodeFlightStatus(decodeICAO(f)))))]
      [] f.downLinkFormat = 5 ->
           [err |-> "nil",
            f |-> decodeSquawkIdentity(decodeUtilityMessage(decodeDownLinkRequest(
                  decodeFlightStatus(decodeICAO(f)))), 2, 3)]
      [] f.downLinkFormat = 11 ->
           [err |-> "nil", f |-> decodeCapability(decodeICAO(f))]
      [] f.downLinkFormat = 16 ->
           [err |-> "nil",
            f |-> decodeSensitivityLevel(decodeReplyInformation(decode13bitAltitudeCode(
                  decodeVerticalStatus(decodeICAO(f)))))]
      [] f.downLinkFormat = 17 ->
           [err |-> "nil", f |-> decodeAdsb(decodeCapability(decodeICAO(f)))]
      [] f.downLinkFormat = 18 ->
           LET f1 == decodeCapability(f)
           IN  [err |-> "nil",
                f |-> IF f1.ca = 0 THEN decodeAdsb(decodeICAO(f1)) ELSE f1]
      [] f.downLinkFormat = 20 ->
           decodeCommB(decode13bitAltitudeCode(decodeFlightStatus(decodeICAO(f))))
      [] f.downLinkFormat = 21 ->
           decodeCommB(decodeSquawkIdentity(decodeFlightStatus(decodeICAO(f)), 2, 3))
      [] OTHER -> [err |-> "nil", f |-> f]

parse(f) ==
    IF Len(f.message) = 0 THEN [err |-> "Panic", f |-> f]
    ELSE
    LET f1 == decodeDownLinkFormat(f)
    IN  IF getMessageLengthBytes(f1) # Len(f1.message)
        THEN [err |-> "LengthMismatch", f |-> f1]
        ELSE IF checkCrc(f1) # "nil" THEN [err |-> checkCrc(f1), f |-> f1]
        ELSE decodeDF(f1)

\* ------------------------------------------------------------------ inputs

HexDF0 ==
    <<"0", "2", "E", "1", "9", "8", "3", "8", "5", "F", "1", "A", "9", "D">>

HexDF4 ==
    <<"2", "0", "0", "0", "1", "7", "3", "0", "E", "3", "0", "7", "9", "D">>

HexDF5 ==
    <<"2", "8", "0", "0", "0", "9", "A", "3", "E", "0", "2", "9", "5", "2">>

HexDF11 ==
    <<"5", "D", "7", "C", "4", "9", "F", "8", "2", "8", "E", "9", "4", "3">>

HexDF16 ==
    <<"8", "0", "E", "1", "9", "9", "9", "8", "6", "0", "C", "D", "8", "1", "0", "3", "4", "E", "5", "E", "A", "C", "2", "2", "1", "4", "1", "5">>

HexDF17 ==
    <<"8", "D", "4", "8", "4", "0", "D", "6", "2", "0", "2", "C", "C", "3", "7", "1", "C", "3", "2", "C", "E", "0", "5", "7", "6", "0", "9", "8">>

HexDF17Lower ==
    <<"8", "d", "4", "8", "4", "0", "d", "6", "2", "0", "2", "c", "c", "3", "7", "1", "c", "3", "2", "c", "e", "0", "5", "7", "6", "0", "9", "8">>

HexDF18 ==
    <<"9", "0", "4", "9", "F", "0", "E", "2", "2", "8", "0", "0", "0", "1", "9", "E", "7", "6", "0", "B", "F", "4", "E", "2", "0", "F", "1", "D">>

HexDF18CF1 ==
    <<"9", "1", "2", "0", "1", "0", "2", "A", "C", "1", "0", "5", "0", "D", "3", "7", "B", "D", "8", "3", "F", "0", "5", "E", "9", "E", "5", "3">>

HexDF20 ==
    <<"A", "0", "0", "0", "1", "7", "B", "1", "B", "1", "2", "9", "F", "B", "3", "0", "E", "0", "0", "4", "0", "0", "2", "D", "8", "8", "F", "B">>

HexDF21 ==
    <<"A", "8", "0", "0", "0", "8", "0", "0", "9", "9", "6", "C", "0", "9", "F", "0", "A", "8", "0", "0", "0", "0", "C", "8", "C", "E", "4", "3">>

HexDF24 ==
    <<"C", "5", "5", "3", "2", "D", "8", "6", "5", "0", "F", "3", "5", "1", "5", "B", "2", "9", "B", "E", "1", "3", "0", "D", "B", "A", "A", "D">>

HexDF17BadCrc ==
    <<"8", "D", "4", "8", "4", "0", "D", "6", "2", "0", "2", "C", "C", "3", "7", "1", "C", "3", "2", "C", "E", "0", "5", "7", "6", "0", "9", "9">>

HexDF20Short ==
    <<"A", "0", "0", "0", "1", "8", "3", "8", "C", "A", "3", "E", "5", "1">>

HexDF4Long ==
    <<"2", "0", "0", "0", "1", "7", "3", "0", "E", "3", "0", "7", "9", "D", "2", "0", "0", "0", "1", "7", "3", "0", "E", "3", "0", "7", "9", "D">>

HexZeroShort ==
    <<"0", "0", "0", "0", "0", "0", "0", "0", "0", "0", "0", "0", "0", "0">>

HexZeroLong ==
    <<"0", "0", "0", "0", "0", "0", "0", "0", "0", "0", "0", "0", "0", "0", "0", "0", "0", "0", "0", "0", "0", "0", "0", "0", "0", "0", "0", "0">>

HexHeartbeat ==
    <<"0", "0", "0", "0">>

HexLen12 ==
    <<"0", "2", "E", "1", "9", "8", "3", "8", "5", "F", "1", "A">>

HexLen13 ==
    <<"0", "2", "E", "1", "9", "8", "3", "8", "5", "F", "1", "A", "9">>

HexLen15 ==
    <<"0", "2", "E", "1", "9", "8", "3", "8", "5", "F", "1", "A", "9", "D", "0">>

HexLen16 ==
    <<"0", "2", "E", "1", "9", "8", "3", "8", "5", "F", "1", "A", "9", "D", "0", "0">>

HexLen27 ==
    <<"8", "D", "4", "8", "4", "0", "D", "6", "2", "0", "2", "C", "C", "3", "7", "1", "C", "3", "2", "C", "E", "0", "5", "7", "6", "0", "9">>

HexLen30 ==
    <<"8", "D", "4", "8", "4", "0", "D", "6", "2", "0", "2", "C", "C", "3", "7", "1", "C", "3", "2", "C", "E", "0", "5", "7", "6", "0", "9", "8", "0", "0">>

HexBadFirst ==
    <<"G", "2", "E", "1", "9", "8", "3", "8", "5", "F", "1", "A", "9", "D">>

HexBadLast ==
    <<"2", "0", "0", "0", "1", "7", "3", "0", "E", "3", "0", "7", "9", "Z">>

HexBadLong ==
    <<"8", "D", "4", "8", "4", "0", "D", "6", "2", "0", "2", "C", "C", "3", " ", "1", "C", "3", "2", "C", "E", "0", "5", "7", "6", "0", "9", "8">>

HexBadOdd ==
    <<"0", "2", "E", "1", "9", "8", "3", "8", "5", "F", "1", "A", "Z">>

\* payloads that hex-decode to a frame of the length its format implies
ValidPayloads ==
    {HexDF0, HexDF4, HexDF5, HexDF11, HexDF16, HexDF17, HexDF17Lower, HexDF18,
     HexDF18CF1, HexDF20, HexDF21, HexDF24}

\* payloads the decoder has to reject
BadPayloads ==
    {<<>>, HexHeartbeat, HexZeroShort, HexZeroLong, HexDF17BadCrc, HexDF20Short,
     HexDF4Long, HexLen12, HexLen13, HexLen15, HexLen16, HexLen27, HexLen30,
     HexBadFirst, HexBadLast, HexBadLong, HexBadOdd}

Payloads == ValidPayloads \cup BadPayloads

\* the 11 characters read as the MLAT timestamp of an '@' record
TimeStamps ==
    {<<"0", "0", "0", "0", "0", "0", "0", "0", "0", "0", "0">>,
     <<"0", "0", "1", "2", "3", "4", "5", "a", "B", "c", "D">>,
     <<"F", "F", "F", "F", "F", "F", "F", "F", "F", "F", "F">>,
     <<"0", "0", "0", "0", "0", "Z", "0", "0", "0", "0", "0">>}

\* the character between the timestamp slice and the payload
TwelfthChars == {"F", "x"}

Prefixes ==
    {<<>>, <<"*">>}
    \cup {<<"@">> \o ts \o <<c>> : ts \in TimeStamps, c \in TwelfthChars}
    \cup {<<"@">> \o ts : ts \in TimeStamps}

\* leading and trailing framing around a record
Framings ==
    {<<<<>>, <<>>>>, <<<<>>, <<";">>>>, <<<<" ">>, <<";", "\r", "\n">>>>}

Texts ==
    {fr[1] \o p \o h \o fr[2] : fr \in Framings, p \in Prefixes, h \in Payloads}

\* bytes of a string of hex digit pairs
RECURSIVE HexDecode(_)
HexDecode(s) ==
    IF Len(s) < 2 THEN <<>>
    ELSE <<16 * HexVal(s[1]) + HexVal(s[2])>> \o HexDecode(SubSeq(s, 3, Len(s)))

Zeros(n) == [i \in 1..n |-> 0]

\* payloads handed to NewFrameFromBytes: every first byte with a short and a
\* long body, the decodable frames, and payloads too short to hold a frame
ByteInputs ==
    {<<b>> \o Zeros(modesShortMsgBytes - 1) : b \in 0..255}
    \cup {<<b>> \o Zeros(modesLongMsgBytes - 1) : b \in 0..255}
    \cup {HexDecode(h) : h \in ValidPayloads \ {HexDF17Lower}}
    \cup {<<>>, <<0>>, <<141, 72, 64>>}

TickInputs == {U64Zero, <<1, 0, 0, 0>>, <<65535, 65535, 65535, 65535>>}

Frames ==
    {NewFrame(t) : t \in Texts}
    \cup {NewFrameFromBytes(U64Zero, m) : m \in ByteInputs}
    \cup {NewFrameFromBytes(tk, HexDecode(HexDF17)) : tk \in TickInputs}

\* ------------------------------------------------------------------- state
VARIABLES
    frame,       \* the Frame shared by the callers
    decodeLock,  \* holder of frame.decodeLock, 0 when unlocked
    pc,          \* position of each caller inside Decode()
    ret,         \* the value each caller is about to return, or returned last
    returned,    \* history: the values the Decode() calls returned, in order
    calls,       \* history: number of Decode() calls started
    parseRuns,   \* history: number of times the parse section was entered
    applied,     \* the field decoder that has been applied to the frame, or "none"
    wire,        \* the bytes handed to the Beast NewFrame
    beast,       \* what the Beast NewFrame returned for them
    alertLocations,  \* the bot's list of alert locations
    alertConfigs,    \* the alertConfigs maps on the heap, by reference
    goroutine,       \* the call each goroutine of the bot is running
    locCalls,        \* history: number of calls the bot's goroutines started
    savedLocations,  \* the content of alert-locations.json
    panicked,        \* a goroutine panicked: the bot has stopped
    filter,          \* the example finder's Filter
    options,         \* history: the options NewFilter was called with
    filterPc,        \* "new" before NewFilter, "built" after it, "handled" after Handle
    event,           \* the kind of FrameEvent handed to Handle, "none" before
    handled          \* what Handle returned: "frame", "nil", or "none" before

decodeVars == <<frame, decodeLock, pc, ret, returned, calls, parseRuns>>

fieldVars == <<applied, wire, beast>>

locVars ==
    <<alertLocations, alertConfigs, goroutine, locCalls, savedLocations, panicked>>

filterVars == <<filter, options, filterPc, event, handled>>

vars == <<decodeVars, fieldVars, locVars, filterVars>>

Callers == 1..NumCallers

\* no caller has entered Decode()
DecodeIdle ==
    /\ decodeLock = 0
    /\ pc = [p \in Callers |-> "idle"]
    /\ ret = [p \in Callers |-> "none"]
    /\ returned = <<>>
    /\ calls = 0
    /\ parseRuns = 0

\* the value of a Beast frame that has not been built
NoBeast ==
    [err |-> "none", msgType |-> 0, mlatTimestamp |-> <<>>, signalLevel |-> 0,
     body |-> <<>>, raw |-> <<>>]

\* no field decoder has been applied and no Beast record has been read
FieldIdle ==
    /\ applied = "none"
    /\ wire = <<>>
    /\ beast = NoBeast

\* the keys of standardAlerts
Bands == {"very-low", "low", "medium", "high", "very-high"}

\* the Enabled flag of each entry of standardAlerts
standardAlerts == [b \in Bands |-> b # "very-high"]

\* the reference to the standardAlerts map and to the alertConfig values it
\* points to
standardAlertsRef == 0

Goroutines == 1..NumGoroutines

\* a goroutine of the bot that is running no call
IdleCall ==
    [pc |-> "idle", fn |-> "none", discordUserId |-> "", locationName |-> "",
     address |-> "", which |-> "", enabled |-> FALSE, idx |-> -1, err |-> "none"]

\* the bot has an empty list and runs no call
LocIdle ==
    /\ alertLocations = <<>>
    /\ alertConfigs = (standardAlertsRef :> standardAlerts)
    /\ goroutine = [g \in Goroutines |-> IdleCall]
    /\ locCalls = 0
    /\ savedLocations = <<>>
    /\ panicked = FALSE

\* the zero value of Filter: &Filter{}
ZeroFilter == [listIcaos |-> <<>>, listDfType |-> <<>>, listDfMeType |-> <<>>]

\* no filter has been built and no frame handled
FilterIdle ==
    /\ filter = ZeroFilter
    /\ options = <<>>
    /\ filterPc = "new"
    /\ event = "none"
    /\ handled = "none"

Init ==
    /\ frame \in Frames
    /\ DecodeIdle
    /\ FieldIdle
    /\ LocIdle
    /\ FilterIdle

\* variant: Lock() that does not wait for the holder
DecodeLockNoWait(p) ==
    /\ pc[p] = "idle"
    /\ calls < MaxCalls
    /\ decodeLock' = p
    /\ pc' = [pc EXCEPT ![p] = "check"]
    /\ calls' = calls + 1
    /\ UNCHANGED <<frame, ret, returned, parseRuns>>
    /\ UNCHANGED <<fieldVars, locVars, filterVars>>

\* f.decodeLock.Lock() at the start of Decode()
DecodeLock(p) ==
    /\ pc[p] = "idle"
    /\ calls < MaxCalls
    /\ decodeLock = 0
    /\ decodeLock' = p
    /\ pc' = [pc EXCEPT ![p] = "check"]
    /\ calls' = calls + 1
    /\ UNCHANGED <<frame, ret, returned, parseRuns>>
    /\ UNCHANGED <<fieldVars, locVars, filterVars>>

\* variant: Decode() without the hasDecoded early return
DecodeCheckAlwaysParse(p) ==
    /\ pc[p] = "check"
    /\ pc' = [pc EXCEPT ![p] = IF frame.fromBytes THEN "parse" ELSE "parseIntoRaw"]
    /\ parseRuns' = parseRuns + 1
    /\ UNCHANGED <<frame, ret, decodeLock, returned, calls>>
    /\ UNCHANGED <<fieldVars, locVars, filterVars>>

\* if f.hasDecoded { return nil }, else on to the parse section
DecodeCheck(p) ==
    /\ pc[p] = "check"
    /\ IF frame.hasDecoded
       THEN /\ ret' = [ret EXCEPT ![p] = "nil"]
            /\ pc' = [pc EXCEPT ![p] = "unlock"]
            /\ UNCHANGED parseRuns
       ELSE /\ pc' = [pc EXCEPT ![p] = IF frame.fromBytes THEN "parse" ELSE "parseIntoRaw"]
            /\ parseRuns' = parseRuns + 1
            /\ UNCHANGED ret
    /\ UNCHANGED <<frame, decodeLock, returned, calls>>
    /\ UNCHANGED <<fieldVars, locVars, filterVars>>

\* the text path: f.parseIntoRaw(), then f.isNoOp()
DecodeParseIntoRaw(p) ==
    /\ pc[p] = "parseIntoRaw"
    /\ LET r == parseIntoRaw(frame)
       IN  /\ frame' = r.f
           /\ IF r.err # "nil"
              THEN /\ ret' = [ret EXCEPT ![p] = r.err]
                   /\ pc' = [pc EXCEPT ![p] = "unlock"]
              ELSE IF isNoOp(r.f)
              THEN /\ ret' = [ret EXCEPT ![p] = "NoOp"]
                   /\ pc' = [pc EXCEPT ![p] = "unlock"]
              ELSE /\ pc' = [pc EXCEPT ![p] = "parse"]
                   /\ UNCHANGED ret
    /\ UNCHANGED <<decodeLock, returned, calls, parseRuns>>
    /\ UNCHANGED <<fieldVars, locVars, filterVars>>

\* err := f.parse(); a nil error sets f.hasDecoded
DecodeParse(p) ==
    /\ pc[p] = "parse"
    /\ LET r == parse(frame)
       IN  /\ frame' = IF r.err = "nil" THEN [r.f EXCEPT !.hasDecoded = TRUE] ELSE r.f
           /\ ret' = [ret EXCEPT ![p] = r.err]
    /\ pc' = [pc EXCEPT ![p] = "unlock"]
    /\ UNCHANGED <<decodeLock, returned, calls, parseRuns>>
    /\ UNCHANGED <<fieldVars, locVars, filterVars>>

\* the deferred f.decodeLock.Unlock() and the return to the caller
DecodeUnlock(p) ==
    /\ pc[p] = "unlock"
    /\ decodeLock' = 0
    /\ pc' = [pc EXCEPT ![p] = "idle"]
    /\ returned' = Append(returned, ret[p])
    /\ UNCHANGED <<frame, ret, calls, parseRuns>>
    /\ UNCHANGED <<fieldVars, locVars, filterVars>>

Next ==
    \E p \in Callers :
        \/ DecodeLock(p)
        \/ DecodeCheck(p)
        \/ DecodeParseIntoRaw(p)
        \/ DecodeParse(p)
        \/ DecodeUnlock(p)

Spec == Init /\ [][Next]_vars

\* ------------------------------------------------------------- properties
\* the results seen so far: returned by a call, or about to be returned
AllErrs ==
    {returned[i] : i \in 1..Len(returned)}
    \cup {ret[p] : p \in {q \in Callers : pc[q] = "unlock"}}

HasSucceeded == \E i \in 1..Len(returned) : returned[i] = "nil"

HasFailed == \E i \in 1..Len(returned) : returned[i] \in Errors

\* the fields of the frame a consumer can read
Observable(f) ==
    <<f.downLinkFormat, f.icao, f.altitude, f.identity, f.flight, f.message, f.hasDecoded>>

\* C1: once a Decode() call has returned success, no step changes an
\* observable field of the frame or enters the parse section again, and
\* every call that returns afterwards returns success.
C1_DecodeIdempotent ==
    [][HasSucceeded =>
          /\ Observable(frame') = Observable(frame)
          /\ parseRuns' = parseRuns
          /\ \A j \in 1..Len(returned') :
                j > Len(returned) => returned'[j] = "nil"]_vars

\* two Decode() calls have returned success on the same frame
C1_Witness ==
    /\ Len(returned) >= 2
    /\ returned[1] = "nil"
    /\ returned[2] = "nil"

\* C2: the terminal states are absorbing: after a Decode() call has returned
\* an error, every later call fails as well (an error or a panic) and the
\* frame is never decoded; after a success the frame stays decoded.
C2_TerminalStatesAbsorbing ==
    /\ \A i, j \in 1..Len(returned) :
          (i < j /\ returned[i] \in Errors) => returned[j] \in Errors
    /\ HasFailed => ~frame.hasDecoded
    /\ HasSucceeded => frame.hasDecoded

\* C3: the callers serialise on the decode lock: at most one caller is inside
\* Decode() and it holds the lock; on a frame whose first call succeeded the
\* parse section ran once and every call returned success; a decoded frame
\* is never written again, so all callers read the same field values.
C3_DecodeSerialised ==
    /\ [](/\ Cardinality({p \in Callers : pc[p] # "idle"}) <= 1
          /\ \A p \in Callers : pc[p] # "idle" => decodeLock = p
          /\ (returned # <<>> /\ returned[1] = "nil") =>
                /\ parseRuns = 1
                /\ \A i \in 1..Len(returned) : returned[i] = "nil")
    /\ [][frame.hasDecoded => frame' = frame]_vars

\* two different callers have returned success on the same frame
C3_Witness ==
    \E p, q \in Callers :
        /\ p # q
        /\ pc[p] = "idle" /\ ret[p] = "nil"
        /\ pc[q] = "idle" /\ ret[q] = "nil"
        /\ parseRuns = 1

\* C4: a decoded frame has a 7-byte payload exactly when its downlink format
\* is below 16 and a 14-byte payload exactly when it is 16 or above.
C4_LengthMatchesFormat ==
    frame.hasDecoded =>
        /\ Len(frame.message) = 7 <=> frame.downLinkFormat < 16
        /\ Len(frame.message) = 14 <=> frame.downLinkFormat >= 16

\* a decoded DF24 frame, which is a long frame
C4_Witness ==
    /\ frame.hasDecoded
    /\ frame.downLinkFormat = 24
    /\ Len(frame.message) = 14

\* the downlink format has been computed from the payload
DfDetermined ==
    \/ frame.hasDecoded
    \/ AllErrs \cap {"LengthMismatch", "BadCRC"} # {}

\* C5: the downlink format is 24 when the top two bits of the first payload
\* byte are both 1 and the byte shifted right by three otherwise; it is
\* always in 0..24.
C5_DownLinkFormat ==
    /\ frame.downLinkFormat \in 0..24
    /\ DfDetermined =>
          frame.downLinkFormat =
              IF frame.message[1] \div 64 = 3 THEN 24 ELSE frame.message[1] \div 8

\* the format of a payload whose five-bit DF field reads 31
C5_Witness ==
    /\ DfDetermined
    /\ frame.message[1] = 255
    /\ frame.downLinkFormat = 24

\* the errors of the text parser
TextErrs ==
    {"Empty", "ShortFrame", "BadTimestamp", "RawEmpty", "OddLength", "BadLength",
     "BadHex", "MessageEmpty"}

\* the text parser has run on the frame and produced a payload
ParsedOk ==
    /\ ~frame.fromBytes
    /\ ~frame.messageNil
    /\ AllErrs \cap TextErrs = {}

\* s without the surrounding whitespace and ';'
Core(s) ==
    LET keep == {i \in 1..Len(s) : s[i] \notin {" ", "\t", "\n", "\r", "\f", ";"}}
    IN  IF keep = {} THEN <<>>
        ELSE SubSeq(s, CHOOSE i \in keep : \A j \in keep : i <= j,
                       CHOOSE i \in keep : \A j \in keep : i >= j)

\* what is left of a text record without its framing: the leading '*', or
\* the '@' and the twelve characters of the timestamp field
Unframed(s) ==
    LET t == Core(s)
    IN  IF t = <<>> THEN t
        ELSE IF t[1] = "@" THEN SubSeq(t, 14, Len(t))
        ELSE IF t[1] = "*" THEN SubSeq(t, 2, Len(t))
        ELSE t

ToUpper(c) ==
    IF \E i \in 11..16 : LowerHex[i] = c
    THEN UpperHex[CHOOSE i \in 11..16 : LowerHex[i] = c]
    ELSE c

HexEncode(bytes) ==
    [i \in 1..(2 * Len(bytes)) |->
        IF i % 2 = 1 THEN UpperHex[(bytes[(i + 1) \div 2] \div 16) + 1]
        ELSE UpperHex[(bytes[i \div 2] % 16) + 1]]

ParseDone ==
    /\ parseRuns > 0
    /\ \A p \in Callers : pc[p] # "parseIntoRaw"

AllHex(s) == \A i \in 1..Len(s) : IsHexChar(s[i])

\* '@', eleven hex digits, `gap` further characters, then 14 or 28 hex digits
IsMlatRecord(t, gap) ==
    /\ Len(t) \in {12 + gap + 14, 12 + gap + 28}
    /\ t[1] = "@"
    /\ AllHex(SubSeq(t, 2, 12))
    /\ AllHex(SubSeq(t, 13 + gap, Len(t)))

\* the record, optionally followed by ';'
IsMlatInput(s, gap) ==
    \/ IsMlatRecord(s, gap)
    \/ s # <<>> /\ s[Len(s)] = ";" /\ IsMlatRecord(SubSeq(s, 1, Len(s) - 1), gap)

\* value of a hex numeral as a 64-bit unsigned value
RECURSIVE U64FromHex(_)
U64FromHex(s) ==
    IF s = <<>> THEN U64Zero
    ELSE LET v == U64Mul(U64FromHex(SubSeq(s, 1, Len(s) - 1)), 16)
         IN  [v EXCEPT ![1] = v[1] + HexVal(s[Len(s)])]

\* the outcome C7 describes for an '@' record whose payload starts `gap`
\* characters after the eleven timestamp digits
MlatParsed(gap) ==
    IsMlatInput(frame.full, gap) =>
        /\ AllErrs \cap TextErrs = {}
        /\ ParseDone =>
              /\ frame.mode = "MLAT"
              /\ frame.beastTicks = U64FromHex(SubSeq(frame.full, 2, 12))
              /\ ~frame.messageNil
              /\ frame.message =
                     HexDecode(SubSeq(Core(frame.full), 13 + gap, Len(Core(frame.full))))

Classify(s) ==
    LET t == Core(s)
        rest == Unframed(s)
    IN  IF t = <<>> THEN "Empty"
        ELSE IF Len(t) < 14 THEN "ShortFrame"
        ELSE IF Len(rest) % 2 = 1 THEN "OddLength"
        ELSE IF Len(rest) \notin {14, 28} THEN "BadLength"
        ELSE IF ~AllHex(rest) THEN "BadHex"
        ELSE "WellFormed"

\* the record has no '@' prefix, or one whose timestamp digits are hex
TimeStampOk(s) ==
    LET t == Core(s)
    IN  (Len(t) >= 14 /\ t[1] = "@") => AllHex(SubSeq(t, 2, 12))

ImpliedLen(m) ==
    IF m = <<>> THEN modesShortMsgBytes
    ELSE IF (IF m[1] \div 64 = 3 THEN 24 ELSE m[1] \div 8) >= 16
    THEN modesLongMsgBytes
    ELSE modesShortMsgBytes

\* C9: a frame whose payload length differs from the length its downlink
\* format implies makes Decode() return LengthMismatch, without decoding a
\* field; for text frames and for NewFrameFromBytes payloads of any length,
\* the empty payload included.
C9_LengthMismatch ==
    (/\ returned # <<>>
     /\ returned[1] \notin TextErrs \cup {"NoOp"}
     /\ Len(frame.message) # ImpliedLen(frame.message)) =>
        /\ returned[1] = "LengthMismatch"
        /\ calls = 1 => ~frame.hasDecoded /\ frame.icao = 0

\* C10: in a decoded frame the ICAO address is bytes 1..3 for DF11, DF17 and
\* DF18 with CF = 0, the address recovered from the AP field for
\* DF0/4/5/16/20/21, and 0 with no ADS-B ME decoding for DF18 with CF # 0 and
\* for every other format; it always fits in 24 bits.
C10_IcaoByFormat ==
    frame.hasDecoded =>
        LET m == frame.message
            df == frame.downLinkFormat
            cf == m[1] % 8
            be24 == m[2] * 65536 + m[3] * 256 + m[4]
        IN  /\ df \in {11, 17} => frame.icao = be24
            /\ (df = 18 /\ cf = 0) => frame.icao = be24
            /\ df \in {0, 4, 5, 16, 20, 21} => frame.icao = modesChecksumAddr(m)
            /\ ((df = 18 /\ cf # 0) \/ df \notin {0, 4, 5, 11, 16, 17, 18, 20, 21}) =>
                  /\ frame.icao = 0
                  /\ frame.messageType = 0
                  /\ frame.flight = <<>>
            /\ frame.icao \in 0..16777215

\* a decoded DF18 frame whose control field is not zero
C10_Witness ==
    /\ frame.hasDecoded
    /\ frame.downLinkFormat = 18
    /\ frame.message[1] % 8 # 0
    /\ frame.icao = 0

\* ------------------------------------------- the field decoders on their own
\* f.decodeSquawkIdentity(2, 3), as parse calls it for DF5 and DF21
decodeIdentity(f) == decodeSquawkIdentity(f, 2, 3)

\* f.decodeFlightNumber(): the callsign of message[5:11]
decodeFlightNumberOf(f) ==
    [f EXCEPT !.flight = decodeFlightNumber(Slice(f.message, 5, 11))]

\* short payloads with every value of bytes 2 and 3, which hold the 13-bit
\* identity and altitude fields
FieldPayloads == {<<40, 0, hi, lo, 0, 0, 0>> : hi \in 0..255, lo \in 0..255}

\* six callsign bytes: c at position k, bg at the other positions
OneByteVaried(k, c, bg) == [i \in 1..6 |-> IF i = k THEN c ELSE bg]

\* the callsign bytes of "KLM1023 "
CallsignKLM == <<44, 195, 113, 195, 44, 224>>

\* callsign fields: each byte takes every value, the others all zeros or all
\* ones; every byte alike; a real callsign
CallsignInputs ==
    {OneByteVaried(k, c, bg) : k \in 1..6, c \in 0..255, bg \in {0, 255}}
    \cup {CallsignKLM}

\* long payloads that carry the callsign fields in bytes 5..10
CallsignPayloads == {<<141, 72, 64, 214, 32>> \o b \o <<0, 0, 0>> : b \in CallsignInputs}

FieldFrames ==
    {NewFrameFromBytes(U64Zero, m) : m \in FieldPayloads \cup CallsignPayloads}

\* ------------------------------------------------ the Beast binary parser
\* the escape byte 0x1A that starts a Beast record
beastEscape == 26

\* the payload length of each Beast message type: 0x31 Mode A/C, 0x32 Mode S
\* short, 0x33 Mode S long
beastBodyLen == (49 :> 2) @@ (50 :> modesShortMsgBytes) @@ (51 :> modesLongMsgBytes)

\* the bytes of a Beast header before the payload: escape, type, six
\* timestamp bytes and the signal level
beastHeaderLen == 9

\* the bytes with every doubled 0x1A replaced by one
RECURSIVE beastUnstuff(_)
beastUnstuff(b) ==
    IF b = <<>> THEN <<>>
    ELSE IF Len(b) >= 2 /\ b[1] = beastEscape /\ b[2] = beastEscape
    THEN <<beastEscape>> \o beastUnstuff(SubSeq(b, 3, Len(b)))
    ELSE <<b[1]>> \o beastUnstuff(SubSeq(b, 2, Len(b)))

\* variant: the length check leaves out the payload
beastNewFrameHeaderOnly(rawBytes) ==
    LET bad == [NoBeast EXCEPT !.err = "BadBeastFrame"]
        raw == IF Len(rawBytes) <= 2 THEN rawBytes
               ELSE SubSeq(rawBytes, 1, 2) \o beastUnstuff(SubSeq(rawBytes, 3, Len(rawBytes)))
    IN  IF Len(rawBytes) < 2 THEN bad
        ELSE IF rawBytes[1] # beastEscape THEN bad
        ELSE IF rawBytes[2] \notin DOMAIN beastBodyLen THEN bad
        ELSE IF Len(raw) < beastHeaderLen THEN bad
        ELSE [err |-> "nil", msgType |-> raw[2],
              mlatTimestamp |-> SubSeq(raw, 3, 8),
              signalLevel |-> raw[9],
              body |-> SubSeq(raw, beastHeaderLen + 1,
                              IF Len(raw) < beastHeaderLen + beastBodyLen[raw[2]]
                              THEN Len(raw)
                              ELSE beastHeaderLen + beastBodyLen[raw[2]]),
              raw |-> raw]

\* beast.NewFrame(rawBytes): the record un-stuffed and cut into its fields,
\* or BadBeastFrame when the header or a length is wrong
beastNewFrame(rawBytes) ==
    LET bad == [NoBeast EXCEPT !.err = "BadBeastFrame"]
        raw == IF Len(rawBytes) <= 2 THEN rawBytes
               ELSE SubSeq(rawBytes, 1, 2) \o beastUnstuff(SubSeq(rawBytes, 3, Len(rawBytes)))
    IN  IF Len(rawBytes) < 2 THEN bad
        ELSE IF rawBytes[1] # beastEscape THEN bad
        ELSE IF rawBytes[2] \notin DOMAIN beastBodyLen THEN bad
        ELSE IF Len(raw) < beastHeaderLen + beastBodyLen[raw[2]] THEN bad
        ELSE [err |-> "nil", msgType |-> raw[2],
              mlatTimestamp |-> SubSeq(raw, 3, 8),
              signalLevel |-> raw[9],
              body |-> SubSeq(raw, beastHeaderLen + 1, beastHeaderLen + beastBodyLen[raw[2]]),
              raw |-> raw]

\* the records of the tests
beastModeAc == <<26, 49, 0, 0, 0, 0, 0, 0, 0, 0, 0>>

beastModeSShort == <<26, 50, 34, 27, 84, 240, 129, 43, 38, 93, 124, 73, 248, 40, 233, 67>>

beastModeSLong ==
    <<26, 51, 34, 27, 84, 172, 194, 233, 40, 141, 124, 73, 248, 88, 65, 210, 108,
      202, 57, 51, 228, 30, 207>>

\* short records with a 0x1A in the timestamp and as the last payload byte,
\* doubled on the wire
beastStuffedMlat ==
    <<26, 50, 34, 26, 26, 84, 240, 129, 43, 38, 93, 124, 73, 248, 40, 233, 67>>

beastStuffedLast ==
    <<26, 50, 34, 27, 84, 240, 129, 43, 38, 93, 124, 73, 248, 40, 233, 26, 26>>

beastRecords ==
    {beastModeAc, beastModeSShort, beastModeSLong, beastStuffedMlat, beastStuffedLast}

\* inputs of the Beast parser: all-zero inputs, every record cut short at
\* every length, every record with another first or second byte, and every
\* record with bytes behind it
BeastInputs ==
    {Zeros(n) : n \in 0..(beastHeaderLen + modesLongMsgBytes)}
    \cup UNION {{SubSeq(r, 1, n) : n \in 0..Len(r)} : r \in beastRecords}
    \cup {[r EXCEPT ![1] = c] : r \in beastRecords, c \in {0, 27, 49}}
    \cup {[r EXCEPT ![2] = c] : r \in beastRecords, c \in {0, 26, 48, 52}}
    \cup {r \o <<26>> : r \in beastRecords}

\* a frame to decode the fields of, or a Beast record to read
FieldInit ==
    /\ DecodeIdle
    /\ LocIdle
    /\ FilterIdle
    /\ applied = "none"
    /\ beast = NoBeast
    /\ \/ /\ frame \in FieldFrames
          /\ wire = <<>>
       \/ /\ frame = NewFrame(<<>>)
          /\ wire \in BeastInputs

\* the squawk decoder is applied to bytes 2 and 3 of the payload
ApplySquawkIdentity ==
    /\ applied = "none"
    /\ frame.fromBytes
    /\ frame' = decodeIdentity(frame)
    /\ applied' = "decodeSquawkIdentity"
    /\ UNCHANGED <<decodeLock, pc, ret, returned, calls, parseRuns, wire, beast, locVars, filterVars>>

\* the AC13 decoder is applied to bytes 2 and 3 of the payload
ApplyAltitudeCode ==
    /\ applied = "none"
    /\ frame.fromBytes
    /\ frame' = decode13bitAltitudeCode(frame)
    /\ applied' = "decode13bitAltitudeCode"
    /\ UNCHANGED <<decodeLock, pc, ret, returned, calls, parseRuns, wire, beast, locVars, filterVars>>

\* the callsign decoder is applied to bytes 5..10 of a long payload
ApplyFlightNumber ==
    /\ applied = "none"
    /\ frame.fromBytes
    /\ Len(frame.message) = modesLongMsgBytes
    /\ frame' = decodeFlightNumberOf(frame)
    /\ applied' = "decodeFlightNumber"
    /\ UNCHANGED <<decodeLock, pc, ret, returned, calls, parseRuns, wire, beast, locVars, filterVars>>

\* beast.NewFrame is called on the bytes
ReadBeastFrame ==
    /\ applied = "none"
    /\ ~frame.fromBytes
    /\ beast' = beastNewFrame(wire)
    /\ applied' = "NewFrame"
    /\ UNCHANGED <<decodeVars, wire, locVars, filterVars>>

FieldNext ==
    \/ ApplySquawkIdentity
    \/ ApplyAltitudeCode
    \/ ApplyFlightNumber
    \/ ReadBeastFrame

FieldSpec == FieldInit /\ [][FieldNext]_vars

\* the 13-bit field of bytes 2 and 3: bit 12 is the first bit on the wire
Field13(f) == (f.message[3] % 32) * 256 + f.message[4]

\* the octal digit whose 1, 2 and 4 bits are bits k1, k2 and k4 of x
Octal(x, k1, k2, k4) == Bit(x, k1) + 2 * Bit(x, k2) + 4 * Bit(x, k4)

\* the 13-bit field, ZERO bit clear, that carries the digits of an identity
SquawkField(id) ==
    LET a == id \div 1000
        b == (id \div 100) % 10
        c == (id \div 10) % 10
        d == id % 10
    IN    Bit(c, 0) * 4096 + Bit(a, 0) * 2048 + Bit(c, 1) * 1024 + Bit(a, 1) * 512
        + Bit(c, 2) * 256 + Bit(a, 2) * 128 + Bit(b, 0) * 32 + Bit(d, 0) * 16
        + Bit(b, 1) * 8 + Bit(d, 1) * 4 + Bit(b, 2) * 2 + Bit(d, 2)

\* C11: the identity is a*1000 + b*100 + c*10 + d with A, B, C, D the octal
\* digits de-interleaved from C1-A1-C2-A2-C4-A4-ZERO-B1-D1-B2-D2-B4-D4; every
\* decimal digit is in 0..7; the ZERO bit and the top three bits of the first
\* byte play no part; the identity determines the twelve A/B/C/D bits, so
\* inputs that differ in one of them have different identities.
C11_SquawkIdentity ==
    applied = "decodeSquawkIdentity" =>
        LET x == Field13(frame)
            id == frame.identity
        IN  /\ id = Octal(x, 11, 9, 7) * 1000 + Octal(x, 5, 3, 1) * 100
                    + Octal(x, 12, 10, 8) * 10 + Octal(x, 4, 2, 0)
            /\ id \div 1000 \in 0..7
            /\ (id \div 100) % 10 \in 0..7
            /\ (id \div 10) % 10 \in 0..7
            /\ id % 10 \in 0..7
            /\ id <= 7777
            /\ SquawkField(id) = x - 64 * Bit(x, 6)

\* squawk 7777 decoded from a field with the ZERO bit and the three spare
\* bits of the first byte set
C11_Witness ==
    /\ applied = "decodeSquawkIdentity"
    /\ frame.message[3] = 255
    /\ frame.message[4] = 255
    /\ frame.identity = 7777

\* the M and Q bits of the 13-bit altitude code
AcM(f) == Bit(Field13(f), 6)

AcQ(f) == Bit(Field13(f), 4)

\* the altitude code without its M and Q bits, the other bits in order
Ac11(f) ==
    LET x == Field13(f)
    IN  (x \div 128) * 32 + Bit(x, 5) * 16 + (x % 16)

\* C12: with M = 0 and Q = 1 the altitude is n * 25 - 1000 feet for n the
\* altitude code without its M and Q bits: a multiple of 25 in
\* -1000..50175, marked valid; with Q = 0 the altitude is a multiple of 100.
C12_AltitudeQBit ==
    applied = "decode13bitAltitudeCode" =>
        /\ (AcM(frame) = 0 /\ AcQ(frame) = 1) =>
              /\ Ac11(frame) \in 0..2047
              /\ frame.altitude = Ac11(frame) * 25 - 1000
              /\ frame.altitude % 25 = 0
              /\ frame.altitude \in -1000..50175
              /\ frame.validAltitude
              /\ frame.unit = modesUnitFeet
        /\ AcQ(frame) = 0 => frame.altitude % 100 = 0

\* the highest 25 ft altitude has been decoded
C12_Witness ==
    /\ applied = "decode13bitAltitudeCode"
    /\ AcM(frame) = 0
    /\ AcQ(frame) = 1
    /\ frame.altitude = 50175

\* C13: with M = 1 the unit is metres and the altitude is not valid,
\* whatever Q is; with M = 0 and Q = 0 a Gillham result below -12 is not
\* valid; an altitude that is not valid is stored as 0.
C13_AltitudeValidity ==
    applied = "decode13bitAltitudeCode" =>
        /\ AcM(frame) = 1 =>
              /\ frame.unit = modesUnitMetres
              /\ ~frame.validAltitude
        /\ (/\ AcM(frame) = 0
            /\ AcQ(frame) = 0
            /\ modeAToModeC(decodeID13Field(Field13(frame))) < -12) =>
              ~frame.validAltitude
        /\ ~frame.validAltitude => frame.altitude = 0

\* a Gillham code that is not legal has been rejected
C13_Witness ==
    /\ applied = "decode13bitAltitudeCode"
    /\ AcM(frame) = 0
    /\ AcQ(frame) = 0
    /\ Field13(frame) # 0
    /\ ~frame.validAltitude
    /\ frame.altitude = 0

\* the place of a character in the AIS charset, from 0
AisIndex(ch) == CHOOSE i \in 0..63 : aisCharset[i + 1] = ch

\* C14: the callsign is empty or eight characters of the AIS charset; the
\* eight 6-bit indexes of its characters, in order, are the 48 bits of the
\* six input bytes; it is empty exactly when all eight characters are '@',
\* which is the all-zero input.
C14_Callsign ==
    applied = "decodeFlightNumber" =>
        LET b == SubSeq(frame.message, 6, 11)
            cs == frame.flight
            chars == IF cs = <<>> THEN [i \in 1..8 |-> "@"] ELSE cs
            idx == [i \in 1..8 |-> AisIndex(chars[i])]
        IN  /\ Len(cs) \in {0, 8}
            /\ \A i \in 1..Len(cs) : \E k \in 1..64 : aisCharset[k] = cs[i]
            /\ b[1] * 65536 + b[2] * 256 + b[3]
                  = idx[1] * 262144 + idx[2] * 4096 + idx[3] * 64 + idx[4]
            /\ b[4] * 65536 + b[5] * 256 + b[6]
                  = idx[5] * 262144 + idx[6] * 4096 + idx[7] * 64 + idx[8]
            /\ cs = <<>> <=> \A i \in 1..6 : b[i] = 0

\* the callsign "KLM1023 " has been decoded
C14_Witness ==
    /\ applied = "decodeFlightNumber"
    /\ frame.flight = <<"K", "L", "M", "1", "0", "2", "3", " ">>

\* v * k does not fit in 64 bits
U64MulOverflows(v, k) ==
    LET p0 == v[1] * k
        p1 == v[2] * k + (p0 \div 65536)
        p2 == v[3] * k + (p1 \div 65536)
        p3 == v[4] * k + (p2 \div 65536)
    IN  p3 >= 65536

\* the frame carries MLAT ticks: it was built from bytes, or its text had an
\* '@' timestamp that the parser accepted
CarriesTicks ==
    \/ frame.fromBytes
    \/ /\ ParseDone
       /\ frame.mode = "MLAT"
       /\ AllErrs \cap TextErrs = {}

\* C15: a frame that carries MLAT ticks t has BeastTicksNs() = t * 500, for
\* text frames with an '@' timestamp and for frames built by
\* NewFrameFromBytes; the product of an accepted text timestamp fits in 64
\* bits.
C15_BeastTicksNs ==
    CarriesTicks =>
        /\ frame.beastTicksNs = U64Mul(frame.beastTicks, 500)
        /\ ~frame.fromBytes => ~U64MulOverflows(frame.beastTicks, 500)

\* the formats parse() has a case for
DispatchedFormats == {0, 4, 5, 11, 16, 17, 18, 20, 21}

\* the format the first byte of a payload encodes
FormatOf(m) == IF m[1] \div 64 = 3 THEN 24 ELSE m[1] \div 8

\* the payload has a format without a case and the length of that format
UnknownFormatFrame ==
    /\ ~frame.messageNil
    /\ frame.message # <<>>
    /\ FormatOf(frame.message) \notin DispatchedFormats
    /\ Len(frame.message) = ImpliedLen(frame.message)

\* C16: a frame whose format is none of 0, 4, 5, 11, 16, 17, 18, 20, 21 and
\* whose length matches the format is decoded without an error, and of its
\* fields only the downlink format is set: ICAO, altitude, identity, flight,
\* capability and flight status keep their zero values.
C16_UnknownFormat ==
    UnknownFormatFrame =>
        /\ (returned # <<>> /\ returned[1] \notin TextErrs) =>
              /\ returned[1] = "nil"
              /\ frame.hasDecoded
              /\ frame.downLinkFormat = FormatOf(frame.message)
        /\ frame.icao = 0
        /\ frame.altitude = 0
        /\ ~frame.validAltitude
        /\ frame.identity = 0
        /\ frame.flight = <<>>
        /\ frame.ca = 0
        /\ frame.fs = 0

\* a DF24 frame has been decoded
C16_Witness ==
    /\ UnknownFormatFrame
    /\ returned # <<>>
    /\ returned[1] = "nil"
    /\ frame.hasDecoded
    /\ frame.downLinkFormat = 24

\* position i of w is a 0x1A of the body that closes a doubled pair: the run
\* of 0x1A ending at i, counted from the third byte, has even length
ClosesPair(w, i) ==
    /\ i >= 3
    /\ w[i] = beastEscape
    /\ LET from == CHOOSE j \in 3..i :
                      /\ \A k \in j..i : w[k] = beastEscape
                      /\ (j = 3 \/ w[j - 1] # beastEscape)
       IN  (i - from + 1) % 2 = 0

\* the length of the record without the second byte of each doubled 0x1A
UnstuffedLen(w) == Len(w) - Cardinality({i \in 1..Len(w) : ClosesPair(w, i)})

\* the input has no 0x1A followed by a type byte, or is too short for the
\* record of its type
BadBeastInput(w) ==
    \/ Len(w) < 2
    \/ w[1] # beastEscape
    \/ w[2] \notin {49, 50, 51}
    \/ UnstuffedLen(w) < 9 + (IF w[2] = 49 THEN 2 ELSE IF w[2] = 50 THEN 7 ELSE 14)

\* C17: Beast NewFrame returns an error and no frame for every input that is
\* too short for a complete record of its type or that does not start with
\* 0x1A and a type byte in {0x31, 0x32, 0x33}; every all-zero input of length
\* 0 to 9 is rejected.
C17_BadBeastFrame ==
    applied = "NewFrame" =>
        /\ BadBeastInput(wire) =>
              /\ beast.err = "BadBeastFrame"
              /\ beast.body = <<>>
              /\ beast.raw = <<>>
        /\ (Len(wire) <= 9 /\ \A i \in 1..Len(wire) : wire[i] = 0) =>
              beast.err = "BadBeastFrame"

\* a short record with a doubled 0x1A in its timestamp has been refused: it
\* has the 16 bytes of a short record on the wire and 15 once un-stuffed
C17_Witness ==
    /\ applied = "NewFrame"
    /\ wire = SubSeq(beastStuffedMlat, 1, 16)
    /\ beast.err = "BadBeastFrame"

\* --------------------------------------------- the bot's alert locations
DiscordUserIds == {"u1", "u2"}

LocationNames == {"home", "work"}

\* the keys a caller may name: two keys of standardAlerts and one that no
\* alertConfigs map has
WhichInputs == {"low", "very-high", "extreme"}

\* a location as loaded or added; AlertConfig is a reference to a map
Location(discordUserId, locationName, ref) ==
    [DiscordUserId |-> discordUserId, LocationName |-> locationName,
     Address |-> "", AlertConfig |-> ref]

\* the (DiscordUserId, LocationName) pairs of a list, in order
Keys(list) == [i \in 1..Len(list) |-> <<list[i].DiscordUserId, list[i].LocationName>>]

\* sequences of at most MaxLoaded different pairs
LoadedKeys ==
    {k \in UNION {[1..n -> DiscordUserIds \X LocationNames] : n \in 0..MaxLoaded} :
        \A i, j \in 1..Len(k) : i # j => k[i] # k[j]}

\* getExisting(discordUserId, locationName): the index, from 0, of the first
\* record of the pair, -1 if there is none
getExisting(discordUserId, locationName) ==
    LET hits == {i \in 1..Len(alertLocations) :
                    /\ alertLocations[i].DiscordUserId = discordUserId
                    /\ alertLocations[i].LocationName = locationName}
    IN  IF hits = {} THEN -1
        ELSE (CHOOSE i \in hits : \A j \in hits : i <= j) - 1

\* loadLocationsList: json.Unmarshal gives every location of the file a map
\* and alertConfig values of its own
LocInit ==
    /\ frame = NewFrame(<<>>)
    /\ DecodeIdle
    /\ FieldIdle
    /\ FilterIdle
    /\ \E k \in LoadedKeys :
          /\ alertLocations = [i \in 1..Len(k) |-> Location(k[i][1], k[i][2], i)]
          /\ alertConfigs = [r \in 0..Len(k) |-> standardAlerts]
          /\ savedLocations = k
    /\ goroutine = [g \in Goroutines |-> IdleCall]
    /\ locCalls = 0
    /\ panicked = FALSE

\* a goroutine enters fn with its arguments and runs getExisting; on -1
\* (addAlertLocation: on a hit) it returns err, else it goes on to the write
Enter(g, fn, discordUserId, locationName, address, which, enabled, err) ==
    /\ ~panicked
    /\ goroutine[g].pc = "idle"
    /\ locCalls < MaxLocCalls
    /\ locCalls' = locCalls + 1
    /\ LET idx == getExisting(discordUserId, locationName)
           call == [pc |-> "write", fn |-> fn, discordUserId |-> discordUserId,
                    locationName |-> locationName, address |-> address,
                    which |-> which, enabled |-> enabled, idx |-> idx,
                    err |-> "none"]
       IN  goroutine' =
             [goroutine EXCEPT ![g] =
                 IF (idx = -1) = (fn = "addAlertLocation")
                 THEN call
                 ELSE [call EXCEPT !.pc = "idle", !.err = err]]
    /\ UNCHANGED <<alertLocations, alertConfigs, savedLocations, panicked>>
    /\ UNCHANGED <<decodeVars, fieldVars, filterVars>>

\* addAlertLocation up to the return of getExisting
addAlertLocationCheck(g) ==
    \E u \in DiscordUserIds, n \in LocationNames :
        Enter(g, "addAlertLocation", u, n, "", "", FALSE,
              "you have an existing location with this name")

\* removeAlertLocation up to the return of getExisting
removeAlertLocationFind(g) ==
    \E u \in DiscordUserIds, n \in LocationNames :
        Enter(g, "removeAlertLocation", u, n, "", "", FALSE, "unknown location")

\* setLocationAddress up to the return of getExisting
setLocationAddressFind(g) ==
    \E u \in DiscordUserIds, n \in LocationNames :
        Enter(g, "setLocationAddress", u, n, "1 Some St", "", FALSE,
              "that location name does not exist")

\* setLocationAlertConfigEnabled up to the return of getExisting
setLocationAlertConfigEnabledFind(g) ==
    \E u \in DiscordUserIds, n \in LocationNames, w \in WhichInputs, e \in BOOLEAN :
        Enter(g, "setLocationAlertConfigEnabled", u, n, "", w, e,
              "that location name does not exist")

\* the goroutine is at the write of fn, which it does under the write lock
AtWrite(g, fn) ==
    /\ ~panicked
    /\ goroutine[g].pc = "write"
    /\ goroutine[g].fn = fn

\* the write is done; saveLocationsList is next
ToSave(g) == goroutine' = [goroutine EXCEPT ![g].pc = "save"]

\* a run-time panic of goroutine g: the program stops
Panic(g, what) ==
    /\ panicked' = TRUE
    /\ goroutine' = [goroutine EXCEPT ![g].pc = "panic", ![g].err = what]
    /\ UNCHANGED <<alertLocations, alertConfigs>>

\* addAlertLocation: the append of a location whose AlertConfig is the
\* standardAlerts map itself
addAlertLocationAppend(g) ==
    /\ AtWrite(g, "addAlertLocation")
    /\ alertLocations' =
          Append(alertLocations,
                 Location(goroutine[g].discordUserId, goroutine[g].locationName,
                          standardAlertsRef))
    /\ ToSave(g)
    /\ UNCHANGED <<alertConfigs, locCalls, savedLocations, panicked>>
    /\ UNCHANGED <<decodeVars, fieldVars, filterVars>>

\* removeAlertLocation: the three cases of the cut at idx
removeAlertLocationCut(g) ==
    /\ AtWrite(g, "removeAlertLocation")
    /\ LET idx == goroutine[g].idx
           len == Len(alertLocations)
       IN  IF len = 1 /\ idx = 0
           THEN /\ alertLocations' = <<>>
                /\ ToSave(g)
                /\ UNCHANGED <<alertConfigs, panicked>>
           ELSE IF idx = len - 1
           THEN /\ alertLocations' = SubSeq(alertLocations, 1, idx - 1)
                /\ ToSave(g)
                /\ UNCHANGED <<alertConfigs, panicked>>
           ELSE IF idx + 1 > len
           THEN Panic(g, "slice bounds out of range")
           ELSE /\ alertLocations' =
                      SubSeq(alertLocations, 1, idx) \o SubSeq(alertLocations, idx + 2, len)
                /\ ToSave(g)
                /\ UNCHANGED <<alertConfigs, panicked>>
    /\ UNCHANGED <<locCalls, savedLocations>>
    /\ UNCHANGED <<decodeVars, fieldVars, filterVars>>

\* setLocationAddress: alertLocations[idx].Address = address
setLocationAddressWrite(g) ==
    /\ AtWrite(g, "setLocationAddress")
    /\ LET idx == goroutine[g].idx
       IN  IF idx >= Len(alertLocations)
           THEN Panic(g, "index out of range")
           ELSE /\ alertLocations' =
                      [alertLocations EXCEPT ![idx + 1].Address = goroutine[g].address]
                /\ ToSave(g)
                /\ UNCHANGED <<alertConfigs, panicked>>
    /\ UNCHANGED <<locCalls, savedLocations>>
    /\ UNCHANGED <<decodeVars, fieldVars, filterVars>>

\* setLocationAlertConfigEnabled:
\* alertLocations[idx].AlertConfig[which].Enabled = enabled
setLocationAlertConfigEnabledWrite(g) ==
    /\ AtWrite(g, "setLocationAlertConfigEnabled")
    /\ LET idx == goroutine[g].idx
           which == goroutine[g].which
       IN  IF idx >= Len(alertLocations)
           THEN Panic(g, "index out of range")
           ELSE IF which \notin Bands
           THEN Panic(g, "nil pointer dereference")
           ELSE /\ alertConfigs' =
                      [alertConfigs EXCEPT ![alertLocations[idx + 1].AlertConfig][which] =
                          goroutine[g].enabled]
                /\ ToSave(g)
                /\ UNCHANGED <<alertLocations, panicked>>
    /\ UNCHANGED <<locCalls, savedLocations>>
    /\ UNCHANGED <<decodeVars, fieldVars, filterVars>>

\* saveLocationsList, under the read lock, and the return of nil
saveLocationsList(g) ==
    /\ ~panicked
    /\ goroutine[g].pc = "save"
    /\ savedLocations' = Keys(alertLocations)
    /\ goroutine' = [goroutine EXCEPT ![g].pc = "idle", ![g].err = "nil"]
    /\ UNCHANGED <<alertLocations, alertConfigs, locCalls, panicked>>
    /\ UNCHANGED <<decodeVars, fieldVars, filterVars>>

LocNext ==
    \E g \in Goroutines :
        \/ addAlertLocationCheck(g)
        \/ removeAlertLocationFind(g)
        \/ setLocationAddressFind(g)
        \/ setLocationAlertConfigEnabledFind(g)
        \/ addAlertLocationAppend(g)
        \/ removeAlertLocationCut(g)
        \/ setLocationAddressWrite(g)
        \/ setLocationAlertConfigEnabledWrite(g)
        \/ saveLocationsList(g)

LocSpec == LocInit /\ [][LocNext]_vars

\* no two locations of the list have the same (DiscordUserId, LocationName)
NoDuplicates ==
    \A i, j \in 1..Len(alertLocations) :
        i # j => Keys(alertLocations)[i] # Keys(alertLocations)[j]

\* this step is goroutine g entering fn
Enters(g, fn) ==
    /\ goroutine[g].pc = "idle"
    /\ locCalls' = locCalls + 1
    /\ goroutine'[g].fn = fn
    /\ goroutine'[g] # goroutine[g]

\* this step is the write of fn by goroutine g
Writes(g, fn) ==
    /\ goroutine[g].pc = "write"
    /\ goroutine[g].fn = fn
    /\ goroutine'[g].pc = "save"

\* the location at the index goroutine g found is the one its arguments name
IdxNamesEntry(g) ==
    /\ goroutine[g].idx + 1 \in 1..Len(alertLocations)
    /\ Keys(alertLocations)[goroutine[g].idx + 1]
          = <<goroutine[g].discordUserId, goroutine[g].locationName>>

\* C18: the list never holds two locations with the same (DiscordUserId,
\* LocationName), whatever the interleaving of the addAlertLocation calls;
\* an add for a pair in the list returns the 'existing location' error and
\* leaves the list unchanged.
C18_UniqueNames ==
    /\ []NoDuplicates
    /\ [][\A g \in Goroutines :
            (/\ Enters(g, "addAlertLocation")
             /\ <<goroutine'[g].discordUserId, goroutine'[g].locationName>>
                   \in {Keys(alertLocations)[i] : i \in 1..Len(alertLocations)}) =>
                /\ goroutine'[g].pc = "idle"
                /\ goroutine'[g].err = "you have an existing location with this name"
                /\ alertLocations' = alertLocations]_vars

\* the list without its i-th location
RemoveAt(list, i) == SubSeq(list, 1, i - 1) \o SubSeq(list, i + 1, Len(list))

\* C19: removeAlertLocation(user, name) on a list with a location for (user,
\* name) leaves the list without that one location, the others in order,
\* wherever the location is; without such a location it returns 'unknown
\* location' and leaves the list as it is.
C19_RemoveExactlyOne ==
    [][\A g \in Goroutines :
          /\ (Writes(g, "removeAlertLocation") /\ IdxNamesEntry(g)) =>
                alertLocations' = RemoveAt(alertLocations, goroutine[g].idx + 1)
          /\ (/\ Enters(g, "removeAlertLocation")
              /\ <<goroutine'[g].discordUserId, goroutine'[g].locationName>>
                    \notin {Keys(alertLocations)[i] : i \in 1..Len(alertLocations)}) =>
                /\ goroutine'[g].pc = "idle"
                /\ goroutine'[g].err = "unknown location"
                /\ alertLocations' = alertLocations]_vars

\* C20: setLocationAlertConfigEnabled(user, name, which, enabled) sets the
\* Enabled flag of band `which` of the named location and nothing else: the
\* other bands of the location, the alert configuration of every other
\* location and the standardAlerts defaults stay as they are.
C20_EnabledOnlyThere ==
    [][\A g \in Goroutines :
          (Writes(g, "setLocationAlertConfigEnabled") /\ IdxNamesEntry(g)) =>
              LET i == goroutine[g].idx + 1
                  cfg(list, heap, j) == heap[list[j].AlertConfig]
              IN  /\ alertLocations' = alertLocations
                  /\ cfg(alertLocations, alertConfigs', i) =
                        [cfg(alertLocations, alertConfigs, i)
                            EXCEPT ![goroutine[g].which] = goroutine[g].enabled]
                  /\ \A j \in 1..Len(alertLocations) :
                        j # i => cfg(alertLocations, alertConfigs', j)
                                    = cfg(alertLocations, alertConfigs, j)
                  /\ alertConfigs'[standardAlertsRef] = alertConfigs[standardAlertsRef]]_vars

\* the calls that write to, or cut, the location at the index they found
IndexingCalls ==
    {"removeAlertLocation", "setLocationAddress", "setLocationAlertConfigEnabled"}

\* C21: under any interleaving of removeAlertLocation, setLocationAddress,
\* setLocationAlertConfigEnabled and addAlertLocation calls, the location a
\* call writes to or removes is, at the time of the write, the location its
\* arguments name, and no call indexes the list out of range.
C21_WritesNamedEntry ==
    [][\A g \in Goroutines :
          /\ \A fn \in IndexingCalls : Writes(g, fn) => IdxNamesEntry(g)
          /\ goroutine'[g].err
                \notin {"index out of range", "slice bounds out of range"}]_vars

\* ------------------------------------------- message length in bits and bytes
\* parse() has run on the frame and its payload length equals the length its
\* downlink format implies
PassedLengthCheck ==
    /\ parseRuns > 0
    /\ \A p \in Callers : pc[p] \notin {"parseIntoRaw", "parse"}
    /\ Len(frame.message) > 0
    /\ frame.downLinkFormat = decodeDownLinkFormat(frame).downLinkFormat
    /\ getMessageLengthBytes(frame) = Len(frame.message)

\* C23: for every frame that passed the length check, the message length in
\* bits is 8 times the message length in bytes: 112 for the downlink formats
\* with bit 4 set (14-byte payload) and 56 for all others (7-byte payload).
C23_LengthBitsMatchBytes ==
    PassedLengthCheck =>
        /\ getMessageLengthBits(frame) = 8 * getMessageLengthBytes(frame)
        /\ getMessageLengthBits(frame)
              = IF BitAnd(frame.downLinkFormat, 16) # 0 THEN 112 ELSE 56

\* ------------------------------------------- the example finder's filter
\* an Option value: the With... function that made it and its argument
Option(name, arg) == [name |-> name, arg |-> arg]

\* filter.listDfType = append(filter.listDfType, dfType)
WithDownlinkFormatType(dfType, f) ==
    [f EXCEPT !.listDfType = Append(@, dfType)]

\* filter.listDfType = append(filter.listDfType, dfType)
WithDF17MessageType(dfType, f) ==
    [f EXCEPT !.listDfType = Append(@, dfType)]

\* 17, then 5..18 and 20..22, all appended to listDfType
WithDF17MessageTypeLocation(f) ==
    [f EXCEPT !.listDfType =
        @ \o <<17>> \o <<5, 6, 7, 8, 9, 10, 11, 12, 13, 14, 15, 16, 17, 18, 20, 21, 22>>]

\* filter.listIcaos = append(filter.listIcaos, icao)
WithPlaneIcao(icao, f) ==
    [f EXCEPT !.listIcaos = Append(@, icao)]

\* opt(f)
ApplyOption(opt, f) ==
    CASE opt.name = "WithDownlinkFormatType" -> WithDownlinkFormatType(opt.arg, f)
      [] opt.name = "WithDF17MessageType" -> WithDF17MessageType(opt.arg, f)
      [] opt.name = "WithDF17MessageTypeLocation" -> WithDF17MessageTypeLocation(f)
      [] opt.name = "WithPlaneIcao" -> WithPlaneIcao(opt.arg, f)

\* f := &Filter{}; for _, opt := range opts { opt(f) }
RECURSIVE ApplyOptions(_, _)
ApplyOptions(opts, f) ==
    IF opts = <<>> THEN f
    ELSE ApplyOptions(Tail(opts), ApplyOption(Head(opts), f))

NewFilter(opts) == ApplyOptions(opts, ZeroFilter)

\* bytes.Contains(list, []byte{b}), and the range loop over listIcaos
Contains(list, b) == \E i \in 1..Len(list) : list[i] = b

\* the accessors of mode_s.Frame
DownLinkType(avr) == avr.downLinkFormat

MessageType(avr) == avr.messageType

Icao(fr) == fr.icao

IsOk(f, avr) ==
    IF Len(f.listDfType) > 0 /\ ~Contains(f.listDfType, DownLinkType(avr)) THEN FALSE
    ELSE IF Len(f.listDfMeType) > 0 /\ ~Contains(f.listDfMeType, MessageType(avr))
    THEN FALSE
    ELSE TRUE

\* the mode_s.Frame of a beast.Frame: the decoded frame of its body
AvrFrame(b) == b

\* Handle(fe) for an event of kind k whose frame, if it has one, is fr: the
\* result is "frame" when Handle returns the frame and "nil" otherwise
Handle(f, k, fr) ==
    IF k = "nil event" THEN "nil"
    ELSE IF k = "nil frame" THEN "nil"
    ELSE IF Len(f.listIcaos) > 0 /\ ~Contains(f.listIcaos, Icao(fr)) THEN "nil"
    ELSE IF Len(f.listDfType) > 0 \/ Len(f.listDfMeType) > 0
    THEN CASE k = "beast.Frame" -> IF IsOk(f, AvrFrame(fr)) THEN "frame" ELSE "nil"
           [] k = "mode_s.Frame" -> IF IsOk(f, fr) THEN "frame" ELSE "nil"
           [] k = "sbs1.Frame" -> "nil"
           [] OTHER -> "nil"
    ELSE "frame"

\* the frames handed to the filter: the decodable payloads, decoded
FilterFrames ==
    {[parse(NewFrameFromBytes(U64Zero, HexDecode(h))).f EXCEPT !.hasDecoded = TRUE] :
        h \in {v \in ValidPayloads :
                  parse(NewFrameFromBytes(U64Zero, HexDecode(v))).err = "nil"}}

\* the options a caller passes: downlink formats 4 and 17, message types 4
\* and 11, the address of the DF17 frame and an address of no frame
Options ==
    {Option("WithDownlinkFormatType", d) : d \in {4, 17}}
    \cup {Option("WithDF17MessageType", t) : t \in {4, 11}}
    \cup {Option("WithDF17MessageTypeLocation", 0)}
    \cup {Option("WithPlaneIcao", a) : a \in {4735190, 1}}

OptionLists == UNION {[1..n -> Options] : n \in 0..MaxOptions}

\* the kinds of FrameEvent: nil, one with a nil frame, and one for each
\* type of tracker.Frame
EventKinds == {"nil event", "nil frame", "beast.Frame", "mode_s.Frame", "sbs1.Frame"}

FilterInit ==
    /\ frame \in FilterFrames
    /\ DecodeIdle
    /\ FieldIdle
    /\ LocIdle
    /\ FilterIdle

\* filter := NewFilter(opts...)
BuildFilter ==
    /\ filterPc = "new"
    /\ \E opts \in OptionLists :
          /\ filter' = NewFilter(opts)
          /\ options' = opts
    /\ filterPc' = "built"
    /\ UNCHANGED <<event, handled>>
    /\ UNCHANGED <<decodeVars, fieldVars, locVars>>

\* filter.Handle(fe) on an event that carries the frame
HandleFrame ==
    /\ filterPc = "built"
    /\ \E k \in EventKinds :
          /\ event' = k
          /\ handled' = Handle(filter, k, frame)
    /\ filterPc' = "handled"
    /\ UNCHANGED <<filter, options>>
    /\ UNCHANGED <<decodeVars, fieldVars, locVars>>

FilterNext ==
    \/ BuildFilter
    \/ HandleFrame

FilterSpec == FilterInit /\ [][FilterNext]_vars

\* the message types the WithDF17MessageType options of a call allow
AllowedMessageTypes ==
    {options[i].arg : i \in {j \in 1..Len(options) : options[j].name = "WithDF17MessageType"}}

\* every option of the call is a WithDF17MessageType, and there is one
OnlyDF17MessageTypes ==
    /\ options # <<>>
    /\ \A i \in 1..Len(options) : options[i].name = "WithDF17MessageType"

\* C22: a filter built with WithDF17MessageType(t) options passes a Mode S
\* frame only when the frame's message type is one of the allowed message
\* types, and the options place no constraint on the downlink format: every
\* Mode S frame whose message type is allowed passes.
C22_DF17MessageTypeFilter ==
    (filterPc = "handled" /\ event = "mode_s.Frame" /\ OnlyDF17MessageTypes) =>
        (handled = "frame" <=> MessageType(frame) \in AllowedMessageTypes)
====
